---------------------------- MODULE Spec2Model ----------------------------
(***************************************************************************)
(* Arq.MFT: market analyzer (market_analyzer_robust.py) and MT5 order      *)
(* executor (mt5_order_executor_v3.py).                                    *)
(*                                                                         *)
(* Units.  Python floats are modelled by exact integers:                   *)
(*   - a confidence c is the integer 1000*c (per-mille): 0.7 is 700;       *)
(*   - a threshold or a risk/reward minimum r is the integer 10*r;         *)
(*   - a price is an integer number of price units, chosen as multiples of *)
(*     100 so that the 0.98/0.99/1.01/1.02 fallback bands are integers;    *)
(*   - a ratio is kept as the pair [num, den] the code divides.            *)
(* Python dicts are records; a key the dict does not hold is a field the   *)
(* record does not have (DictGet).  Python None is the empty sequence and  *)
(* a present value x is <<x>>.                                             *)
(***************************************************************************)
EXTENDS Integers, Sequences, FiniteSets, TLC

VARIABLES
    now,                          \* datetime.now(), in clock ticks
    \* ---- MarketAnalyzer ----
    last_signal_time,             \* self.last_signal_time : signal_key -> time
    emitted,                      \* history: signal_key -> times of the decisions returned
    eval,                         \* history: the last generate_trading_signal call
    analysis,                     \* run_main_loop: its position, self.stop_event
    data_quality_issues,          \* self.data_quality_issues : issue_key -> record
    validations,                  \* history: the calls of validate_data_columns
    module_call,                  \* history: the last call of an analysis module
    last_chart_time,              \* self.last_chart_time : chart_key -> time
    charts,                       \* history: <<chart_key, time>> of the charts saved
    analyzer_config,              \* self.config: mt5_executor.enabled
    \* ---- the signal channel ----
    signal_file,                  \* trading_signals.json : list of signals
    file_mtime,                   \* os.path.getmtime(signal_file); 0: no file yet
    file_valid,                   \* the bytes of the file are a JSON document
    fs_clock,                     \* the clock that stamps the file's mtime
    writer,                       \* send_signal_to_executor: position and locals
    poller,                       \* signal_processor_thread: position in the iteration
    written,                      \* history: timestamps of the completed writes
    \* ---- MT5OrderExecutor (one process) ----
    running,                      \* start() succeeded and stop() was not called
    last_signal_file_mtime,       \* self.last_signal_file_mtime
    processed_signal_timestamps,  \* self.processed_signal_timestamps
    order_queue,                  \* self.order_queue
    daily_stats,                  \* self.daily_stats
    account_info,                 \* self.account_info, read once by connect_mt5
    stop_event,                   \* self.stop_event is set
    threads,                      \* position of each thread of self.threads
    connections,                  \* self.db_conn is open, self.mt5_initialized
    stopper,                      \* position of the thread that called stop()
    in_flight,                    \* the order the worker has sent and not recorded yet
    errors,                       \* history: exceptions the loops caught
    \* ---- SQLite ----
    stats_table,                  \* daily_stats rows : date -> row
    orders_table,                 \* executed_orders rows, in insertion order
    \* ---- ProfitRTDReader and market_data.db ----
    rtd,                          \* the reader: running, last_data, data_queue
    market_table,                 \* rtd_data_<asset> : timestamp -> data
    ingested,                     \* history: the rows store_data_in_db stored
    \* ---- MetaTrader 5 terminal ----
    mt5,                          \* open positions, account balance, next ticket
    \* ---- history ----
    run,                          \* number of executor processes started so far
    enqueued,                     \* every order_queue.put : <<run, timestamp>>
    handled,                      \* every order the worker took from the queue
    last_order,                   \* what the worker saw and did for the last one
    realized,                     \* date -> profit realized by the positions closed
    sizing,                       \* the last calculate_lot_size call
    last_monitor,                 \* the last monitor iteration in the closing window
    stats_calls,                  \* the update_daily_stats calls: count, profits, faults
    rtd_call                      \* the read_rtd_data calls: count, and the last one

quality_vars == <<data_quality_issues, validations>>

handoff_vars == <<last_chart_time, charts, analyzer_config>>

analyzer_vars == <<last_signal_time, emitted, eval, analysis, quality_vars, module_call,
                   handoff_vars>>

channel_vars == <<signal_file, file_mtime, file_valid, fs_clock, writer, poller, written>>

thread_vars == <<stop_event, threads, connections, stopper, in_flight, errors>>

executor_vars == <<running, last_signal_file_mtime, processed_signal_timestamps,
                   order_queue, daily_stats, account_info, thread_vars>>

ingest_vars == <<rtd, market_table, ingested>>

store_vars == <<stats_table, orders_table, ingest_vars>>

history_vars == <<run, enqueued, handled, last_order, realized, sizing, last_monitor,
                  stats_calls, rtd_call>>

vars == <<now, analyzer_vars, channel_vars, executor_vars, store_vars, mt5, history_vars>>

(***************************************************************************)
(* Python helpers                                                          *)
(***************************************************************************)
None == << >>

Some(x) == <<x>>

\* Python truthiness of an optional number: None and 0 are falsy.
Truthy(o) == o # None /\ o[1] # 0

\* dict.get(key, default)
DictGet(d, key, default) == IF key \in DOMAIN d THEN d[key] ELSE default

Abs(x) == IF x < 0 THEN -x ELSE x

Min(a, b) == IF a < b THEN a ELSE b

Max(a, b) == IF a > b THEN a ELSE b

RECURSIVE SumSeq(_)
SumSeq(s) == IF s = << >> THEN 0 ELSE Head(s) + SumSeq(Tail(s))

(***************************************************************************)
(* Bounds of the model                                                     *)
(***************************************************************************)
\* The clock runs over 0..MaxTime.
MaxTime == 2

\* analysis.signal_interval, in clock ticks (300 seconds in the default
\* configuration; the model counts in ticks of its own).
SignalInterval == 2

(***************************************************************************)
(* Configuration (MarketAnalyzer._load_config default_config)              *)
(***************************************************************************)
Assets == {"winfut"}

Profiles == {"conservador", "moderado", "agressivo"}

\* default_config["signals"] and default_config["analysis"] thresholds
BaseConfig ==
    [signals  |-> [min_confidence |-> 600, confirmation_required |-> TRUE,
                   risk_reward_min |-> 12],
     analysis |-> [signal_interval |-> SignalInterval,
                   order_flow |-> [aggression_threshold |-> 15,
                                   absorption_threshold |-> 20],
                   momentum   |-> [signal_threshold |-> 5]]]

\* default_config["strategy_profiles"]
StrategyProfiles ==
    [p \in Profiles |->
       CASE p = "conservador" ->
              [signals    |-> [min_confidence |-> 750, confirmation_required |-> TRUE,
                               risk_reward_min |-> 18],
               order_flow |-> [aggression_threshold |-> 20, absorption_threshold |-> 25],
               momentum   |-> [signal_threshold |-> 7]]
         [] p = "moderado" ->
              [signals    |-> [min_confidence |-> 600, confirmation_required |-> TRUE,
                               risk_reward_min |-> 15],
               order_flow |-> [aggression_threshold |-> 15, absorption_threshold |-> 20],
               momentum   |-> [signal_threshold |-> 5]]
         [] p = "agressivo" ->
              [signals    |-> [min_confidence |-> 500, confirmation_required |-> FALSE,
                               risk_reward_min |-> 12],
               order_flow |-> [aggression_threshold |-> 12, absorption_threshold |-> 15],
               momentum   |-> [signal_threshold |-> 4]]]

\* _get_profile_config: the base configuration with the profile's "signals"
\* and "analysis" categories laid over it; the base when the profile is unknown.
GetProfileConfig(profile_name) ==
    IF profile_name \notin Profiles THEN BaseConfig
    ELSE LET p == StrategyProfiles[profile_name]
         IN  [signals  |-> p.signals,
              analysis |-> [signal_interval |-> BaseConfig.analysis.signal_interval,
                            order_flow      |-> p.order_flow,
                            momentum        |-> p.momentum]]

(***************************************************************************)
(* Analysis modules.  Each takes the features of the observation frame its *)
(* code computes with pandas (window means, counts, ratios) and returns    *)
(* the result dict the Decision Engine reads.  A microsignal is the dict   *)
(* {"type", "reason"} (its "strength" is read by nobody); none of the      *)
(* modules gives a microsignal a "confidence" key.                         *)
(***************************************************************************)
Invalid == [valid |-> FALSE]

\* a position on the 0.3 line counted as near the support
NearSupportInclusive(f) == 10 * (f.ultimo - f.support) <= 3 * (f.resistance - f.support)

\* position_in_range < 0.3, with position_in_range = (last - support) / range_width
NearSupport(f) == 10 * (f.ultimo - f.support) < 3 * (f.resistance - f.support)

\* position_in_range > 0.7
NearResistance(f) == 10 * (f.ultimo - f.support) > 7 * (f.resistance - f.support)

\* analyze_wyckoff.  f.empty: df is None or empty; f.n: len(df);
\* f.ultimo: df['ultimo'].iloc[-1]; f.support / f.resistance: the means of the
\* 3 smallest lows / 3 largest highs of the last 20 rows; f.pdvu / f.puvd: the
\* counts price_down_volume_up / price_up_volume_down.
AnalyzeWyckoff(f) ==
    IF f.empty THEN Invalid
    ELSE
      LET has_volume_analysis == f.n >= 5
          pdvu == IF has_volume_analysis THEN f.pdvu ELSE 0
          puvd == IF has_volume_analysis THEN f.puvd ELSE 0
          has_levels  == f.n >= 10
          range_width == f.resistance - f.support
          below03 == NearSupport(f)
          above07 == NearResistance(f)
          accum == has_levels /\ range_width > 0 /\ below03 /\ pdvu > 5
          distr == has_levels /\ range_width > 0 /\ ~below03 /\ above07 /\ puvd > 5
      IN  [valid      |-> TRUE,
           phase      |-> IF accum THEN "Acumulacao"
                          ELSE IF distr THEN "Distribuicao" ELSE "None",
           signals    |-> IF accum THEN << [type |-> "Compra", reason |-> "wyckoff_accumulation"] >>
                          ELSE IF distr THEN << [type |-> "Venda", reason |-> "wyckoff_distribution"] >>
                          ELSE << >>,
           confidence |-> IF accum \/ distr THEN 700 ELSE 0,
           support_level    |-> IF has_levels THEN Some(f.support) ELSE None,
           resistance_level |-> IF has_levels THEN Some(f.resistance) ELSE None]

\* an exhaustion that looks at the aggression alone
ExhaustionDetectedAggression(f) == f.prev_aggr * f.recent_aggr < 0

\* exhaustion_detected = (aggression_direction_change < 0 or price_direction_change < 0)
ExhaustionDetected(f) ==
    f.prev_aggr * f.recent_aggr < 0 \/ f.prev_pchg * f.recent_pchg < 0

\* analyze_order_flow.  f.strength10: 10 * aggression_strength (the sign of
\* last_saldo); f.ratio10: 10 * absorption_ratio; f.recent_aggr / f.prev_aggr:
\* the aggression balance over rows [-5:] and [-10:-5]; f.recent_pchg /
\* f.prev_pchg: the price change over the same windows (signs matter only).
AnalyzeOrderFlow(f, cfg) ==
    IF f.empty THEN Invalid
    ELSE
      LET thr == cfg.analysis.order_flow
          \* 1. aggression
          aggr      == f.strength10 > thr.aggression_threshold
          aggr_buy  == aggr /\ f.strength10 > 0
          aggr_sell == aggr /\ ~aggr_buy /\ f.strength10 < 0
          sig1  == IF aggr_buy THEN << [type |-> "Compra", reason |-> "aggression_buy"] >>
                   ELSE IF aggr_sell THEN << [type |-> "Venda", reason |-> "aggression_sell"] >>
                   ELSE << >>
          conf1 == IF aggr_buy \/ aggr_sell
                   THEN Min(900, 500 + 10 * Abs(f.strength10)) ELSE 0
          \* 2. absorption
          absorb      == f.n >= 5 /\ f.ratio10 > thr.absorption_threshold
          absorb_sell == absorb /\ f.recent_aggr > 0 /\ f.recent_pchg <= 0
          absorb_buy  == absorb /\ ~absorb_sell /\ f.recent_aggr < 0 /\ f.recent_pchg >= 0
          sig2  == IF absorb_sell THEN << [type |-> "Venda", reason |-> "absorption_of_buying"] >>
                   ELSE IF absorb_buy THEN << [type |-> "Compra", reason |-> "absorption_of_selling"] >>
                   ELSE << >>
          conf2 == IF absorb_sell \/ absorb_buy
                   THEN Max(conf1, Min(800, 400 + 5 * f.ratio10)) ELSE conf1
          \* 3. exhaustion
          exhaustion_detected == f.n >= 10 /\ ExhaustionDetected(f)
          exh_sell == exhaustion_detected /\ f.prev_aggr > 0 /\ f.recent_aggr < 0
          exh_buy  == exhaustion_detected /\ ~exh_sell /\ f.prev_aggr < 0 /\ f.recent_aggr > 0
          sig3  == IF exh_sell THEN << [type |-> "Venda", reason |-> "buying_exhaustion"] >>
                   ELSE IF exh_buy THEN << [type |-> "Compra", reason |-> "selling_exhaustion"] >>
                   ELSE << >>
          conf3 == IF exh_sell \/ exh_buy THEN Max(conf2, 750) ELSE conf2
      IN  [valid |-> TRUE, signals |-> sig1 \o sig2 \o sig3, confidence |-> conf3,
           exhaustion_detected |-> exhaustion_detected]

\* momentum.slow_period of default_config
SlowPeriod == 20

\* prev_ma_diff <= 0 and last_ma_diff > 0
GoldenCross(f) == f.prev_ma_diff <= 0 /\ f.last_ma_diff > 0

\* prev_ma_diff >= 0 and last_ma_diff < 0
DeathCross(f) == f.prev_ma_diff >= 0 /\ f.last_ma_diff < 0

\* analyze_momentum.  f.prev_ma_diff / f.last_ma_diff: ma_fast - ma_slow at rows
\* -2 and -1; f.diff_pct: 1000 * last_ma_diff_pct; f.roc10: 10 * last_roc_5.
AnalyzeMomentum(f, cfg) ==
    IF f.empty \/ f.n < SlowPeriod THEN Invalid
    ELSE
      LET thr   == cfg.analysis.momentum.signal_threshold
          trend == IF f.last_ma_diff > 0 THEN "Alta" ELSE "Baixa"
          golden == f.n >= 3 /\ GoldenCross(f)
          death  == f.n >= 3 /\ ~golden /\ DeathCross(f)
          sig1  == IF golden THEN << [type |-> "Compra", reason |-> "golden_cross"] >>
                   ELSE IF death THEN << [type |-> "Venda", reason |-> "death_cross"] >>
                   ELSE << >>
          conf1 == IF golden \/ death THEN Min(850, 600 + 5 * Abs(f.diff_pct)) ELSE 0
          roc_buy  == Abs(f.roc10) > thr /\ f.roc10 > 0 /\ trend = "Alta"
          roc_sell == Abs(f.roc10) > thr /\ ~(f.roc10 > 0) /\ trend = "Baixa"
          sig2  == IF roc_buy THEN << [type |-> "Compra", reason |-> "momentum_up"] >>
                   ELSE IF roc_sell THEN << [type |-> "Venda", reason |-> "momentum_down"] >>
                   ELSE << >>
          conf2 == IF roc_buy \/ roc_sell
                   THEN Max(conf1, Min(800, 500 + 10 * Abs(f.roc10))) ELSE conf1
      IN  [valid |-> TRUE, signals |-> sig1 \o sig2, confidence |-> conf2, trend |-> trend]

(***************************************************************************)
(* Decision Engine: MarketAnalyzer.generate_trading_signal                 *)
(***************************************************************************)
\* signal_key = f"{asset}_{profile_name}"
SignalKey(asset, profile_name) == <<asset, profile_name>>

IsBuy(s)  == DictGet(s, "type", "") = "Compra"

IsSell(s) == DictGet(s, "type", "") = "Venda"

SignalConfidenceOf(s) == DictGet(s, "confidence", 0)

RECURSIVE MapConfidence(_)
MapConfidence(sigs) ==
    IF sigs = << >> THEN << >>
    ELSE << SignalConfidenceOf(Head(sigs)) >> \o MapConfidence(Tail(sigs))

\* sum(s.get("confidence", 0) for s in filtered_signals) / len(filtered_signals)
MeanConfidence(filtered) ==
    IF filtered = << >> THEN 0 ELSE SumSeq(MapConfidence(filtered)) \div Len(filtered)

\* a valid module's confidence taking the place of the confidence so far
WithModuleConfidenceLast(confidence, results, module) ==
    IF module \in DOMAIN results /\ DictGet(results[module], "valid", FALSE)
    THEN DictGet(results[module], "confidence", 0)
    ELSE confidence

\* max(confidence, results[module]["confidence"]) when the module result is valid
WithModuleConfidence(confidence, results, module) ==
    IF module \in DOMAIN results /\ DictGet(results[module], "valid", FALSE)
    THEN Max(confidence, DictGet(results[module], "confidence", 0))
    ELSE confidence

\* any(s.get("type") == signal_type for s in signals)
AnyOfType(signals, signal_type) ==
    \E i \in 1..Len(signals) : DictGet(signals[i], "type", "") = signal_type

\* Variant: the modules with any microsignal, whatever its type.
StrategiesWithAnySignal(w, o, m, signal_type) ==
    (IF w # << >> THEN 1 ELSE 0) + (IF o # << >> THEN 1 ELSE 0) + (IF m # << >> THEN 1 ELSE 0)

\* strategies_with_signals: the modules with a microsignal of signal_type
StrategiesWithSignals(w, o, m, signal_type) ==
    (IF AnyOfType(w, signal_type) THEN 1 ELSE 0)
    + (IF AnyOfType(o, signal_type) THEN 1 ELSE 0)
    + (IF AnyOfType(m, signal_type) THEN 1 ELSE 0)

\* The number of modules the decision needs behind it.
RequiredStrategies == 2

ConfirmationOk(signal_config, w, o, m, signal_type) ==
    signal_config.confirmation_required
        => StrategiesWithSignals(w, o, m, signal_type) >= RequiredStrategies

\* price * k / 100  (last_price * 0.99, * 1.02, * 1.01, * 0.98)
Band(price, k) == (price * k) \div 100

\* entry, stop and target from the signal type, the levels and the last price
Levels(signal_type, last_price, support_level, resistance_level) ==
    IF signal_type = "Compra"
    THEN [entry_price |-> last_price,
          stop_loss   |-> IF Truthy(support_level) THEN support_level[1]
                          ELSE Band(last_price, 99),
          take_profit |-> IF Truthy(resistance_level) THEN resistance_level[1]
                          ELSE Band(last_price, 102)]
    ELSE [entry_price |-> last_price,
          stop_loss   |-> IF Truthy(resistance_level) THEN resistance_level[1]
                          ELSE Band(last_price, 101),
          take_profit |-> IF Truthy(support_level) THEN support_level[1]
                          ELSE Band(last_price, 98)]

\* risk_reward_ratio = reward / risk if risk > 0 else 0
RiskReward(lv) ==
    LET risk   == Abs(lv.entry_price - lv.stop_loss)
        reward == Abs(lv.take_profit - lv.entry_price)
    IN  IF risk > 0 THEN [num |-> reward, den |-> risk] ELSE [num |-> 0, den |-> 1]

\* Variant: the ratio compared with the base configuration's minimum.
RiskRewardTooLowBase(rr, signal_config) == 10 * rr.num < BaseConfig.signals.risk_reward_min * rr.den

\* risk_reward_ratio < signal_config["risk_reward_min"]  (the minimum in tenths)
RiskRewardTooLow(rr, signal_config) == 10 * rr.num < signal_config.risk_reward_min * rr.den

\* Variant: the confidence compared with the base configuration's minimum.
ConfidenceTooLowBase(confidence, signal_config) == confidence < BaseConfig.signals.min_confidence

\* confidence < signal_config["min_confidence"]
ConfidenceTooLow(confidence, signal_config) == confidence < signal_config.min_confidence

\* Variant: the comparison of the elapsed time inverted.
RateLimitedInverted(lst, key, t, signal_interval) ==
    key \in DOMAIN lst /\ t - lst[key] > signal_interval

\* last_signal_time and (now - last_signal_time).total_seconds() < signal_interval
RateLimited(lst, key, t, signal_interval) ==
    key \in DOMAIN lst /\ t - lst[key] < signal_interval

\* Variant: the stamp replaces the ledger by the one entry.
StampLedgerAlone(lst, key, t) ==
    [k \in {key} |-> t]

\* The ledger after a decision for key was accepted at time t.
StampLedger(lst, key, t) ==
    [k \in DOMAIN lst \cup {key} |-> IF k = key THEN t ELSE lst[k]]

\* generate_trading_signal(asset, analysis_results, profile_name, profile_config)
\* at time t with the ledger lst; market_price is self.market_data[asset]["ultimo"]
\* (None when absent) and db_price the price get_latest_data(asset, 1) returns.
\* The result is the returned signal (None or <<signal>>) and the ledger.
\* a count in which a tie goes to the buyers
SignalTypeTieBuy(buy_signals, sell_signals) ==
    IF Len(buy_signals) >= Len(sell_signals) THEN "Compra" ELSE "Venda"

\* signal_type = "Compra" if len(buy_signals) > len(sell_signals) else "Venda"
SignalType(buy_signals, sell_signals) ==
    IF Len(buy_signals) > Len(sell_signals) THEN "Compra" ELSE "Venda"

GenerateTradingSignal(asset, results, profile_name, profile_config, t, lst, market_price, db_price) ==
    LET signal_config == profile_config.signals
        key           == SignalKey(asset, profile_name)
        w == DictGet(DictGet(results, "wyckoff", Invalid), "signals", << >>)
        o == DictGet(DictGet(results, "order_flow", Invalid), "signals", << >>)
        m == DictGet(DictGet(results, "momentum", Invalid), "signals", << >>)
        all_signals  == w \o o \o m
        buy_signals  == SelectSeq(all_signals, IsBuy)
        sell_signals == SelectSeq(all_signals, IsSell)
        signal_type  == SignalType(buy_signals, sell_signals)
        filtered     == IF signal_type = "Compra" THEN buy_signals ELSE sell_signals
        confidence   ==
            WithModuleConfidence(
              WithModuleConfidence(
                WithModuleConfidence(MeanConfidence(filtered), results, "wyckoff"),
                results, "order_flow"),
              results, "momentum")
        last_price == IF Truthy(market_price) THEN market_price ELSE db_price
        wy == DictGet(results, "wyckoff", Invalid)
        support_level    == DictGet(wy, "support_level", None)
        resistance_level == DictGet(wy, "resistance_level", None)
        lv == Levels(signal_type, last_price[1], support_level, resistance_level)
        rr == RiskReward(lv)
        no_signal == [signal |-> None, last_signal_time |-> lst]
    IN  IF asset \notin Assets THEN no_signal
        ELSE IF RateLimited(lst, key, t, profile_config.analysis.signal_interval)
             THEN no_signal
        ELSE IF all_signals = << >> \/ filtered = << >> THEN no_signal
        ELSE IF ConfidenceTooLow(confidence, signal_config) THEN no_signal
        ELSE IF ~ConfirmationOk(signal_config, w, o, m, signal_type) THEN no_signal
        ELSE IF last_price = None THEN no_signal
        ELSE IF RiskRewardTooLow(rr, signal_config) THEN no_signal
        ELSE [signal |-> Some(
                 [asset |-> asset, type |-> signal_type,
                  entry_price |-> lv.entry_price, stop_loss |-> lv.stop_loss,
                  take_profit |-> lv.take_profit, confidence |-> confidence,
                  risk_reward_ratio |-> rr, timestamp |-> t,
                  analysis |-> [wyckoff    |-> DictGet(wy, "valid", FALSE),
                                order_flow |-> DictGet(DictGet(results, "order_flow", Invalid), "valid", FALSE),
                                momentum   |-> DictGet(DictGet(results, "momentum", Invalid), "valid", FALSE)],
                  strategy_profile |-> profile_name]),
              last_signal_time |-> StampLedger(lst, key, t)]

(***************************************************************************)
(* Observation frames of the model: the features the three analyses read.  *)
(***************************************************************************)
\* df['ultimo'].iloc[-1] of an ordinary frame
LastPrice == 100 * 100

\* (support, resistance) around LastPrice: near support, near resistance,
\* on the support itself, and mid-range; and with the last price outside the
\* range, at a new low under the mean of the three lowest lows or at a new
\* high over the mean of the three highest highs
LevelPairs == { <<9950, 10200>>, <<9700, 10100>>, <<10000, 10300>>, <<9900, 10150>>,
                <<10050, 10400>>, <<9600, 9950>> }

\* (price_down_volume_up, price_up_volume_down)
TellCounts == { <<0, 0>>, <<6, 6>> }

WyckoffFeatures(fr, level_pairs) ==
    { [empty |-> fr.n = 0, n |-> fr.n, ultimo |-> fr.ultimo, support |-> lp[1],
       resistance |-> lp[2], pdvu |-> tc[1], puvd |-> tc[2]] :
      lp \in level_pairs, tc \in TellCounts }

\* (ratio10, recent_aggr, prev_aggr)
FlowShapes == { <<0, 0, 0>>, <<0, -1, 1>>, <<30, 1, -1>>, <<30, -1, 1>> }

OrderFlowFeatures(fr, strengths, shapes) ==
    { [empty |-> fr.n = 0, n |-> fr.n, strength10 |-> st, ratio10 |-> ab[1],
       recent_aggr |-> ab[2], prev_aggr |-> ab[3], recent_pchg |-> 0, prev_pchg |-> 0] :
      st \in strengths, ab \in shapes }

\* (prev_ma_diff, last_ma_diff, roc10)
MomentumShapes == { <<1, 1, 0>>, <<-1, 1, 6>>, <<1, -1, 0>>, <<-1, -1, -6>>, <<-1, 1, 0>> }

MomentumFeatures(fr, shapes, pcts) ==
    { [empty |-> fr.n = 0, n |-> fr.n, prev_ma_diff |-> d[1], last_ma_diff |-> d[2],
       diff_pct |-> pc * d[2], roc10 |-> d[3]] :
      d \in shapes, pc \in pcts }

\* The frames get_latest_data can hand to one evaluation: [n, ultimo].  An
\* empty frame, a short one, a full one, and a full one whose last price is 0
\* (NaN prices are filled with 0).
Frames == { [n |-> 0, ultimo |-> 0], [n |-> 8, ultimo |-> LastPrice],
            [n |-> 25, ultimo |-> LastPrice], [n |-> 25, ultimo |-> 0] }

\* analysis_results of analyze_asset_with_profile: the three analyses of one frame
AnalysisResults(wfs, ofs, mfs, cfg) ==
    { [wyckoff |-> AnalyzeWyckoff(wf), order_flow |-> AnalyzeOrderFlow(of, cfg),
       momentum |-> AnalyzeMomentum(mf, cfg)] : wf \in wfs, of \in ofs, mf \in mfs }

\* Every analysis result of the model for a frame.
AllResults(fr, cfg) ==
    AnalysisResults(WyckoffFeatures(fr, LevelPairs),
                    OrderFlowFeatures(fr, {-50, 0, 18, 50}, FlowShapes),
                    MomentumFeatures(fr, MomentumShapes, {20, 60}), cfg)

\* What get_latest_data(asset, limit=1) returns for the last price when
\* market_data holds a falsy price: nothing, or the newest row's price.
DbPrices(fr) == IF fr.ultimo # 0 THEN {None} ELSE {None, Some(0), Some(LastPrice)}

(***************************************************************************)
(* MT5OrderExecutor: configuration and clock                               *)
(*                                                                         *)
(* Units.  A time of day is a number of minutes since midnight; money is   *)
(* an integer; a volume is an integer number of hundredths of a lot (the   *)
(* code rounds a lot to 2 digits); a quotient the code computes in floats  *)
(* is the exact fraction [num, den].                                       *)
(***************************************************************************)
\* Signal timestamps are 1..MaxSignals.
MaxSignals == 2

\* The signal file holds at most MaxFile entries.
MaxFile == 2

\* At most MaxRuns executor processes are started.
MaxRuns == 2

\* The executor's clock runs over 0..MaxClock.
MaxClock == 5

\* config["trading"]["max_open_trades"], kept small.
MaxOpenTrades == 1

\* update_daily_stats is called at most MaxTrades times a day.
MaxTrades == 1

\* "09:00" and "17:55"
TradingStart == 540

TradingEnd == 1075

\* timedelta(minutes=2)
CloseBufferMinutes == 2

MagicNumber == 234567

ExecutorConfig ==
    [trading |-> [risk_per_trade_pct |-> 1,
                  max_daily_loss_pct |-> 3,
                  max_open_trades    |-> MaxOpenTrades,
                  magic_number       |-> MagicNumber,
                  trading_hours      |-> [start |-> TradingStart, end |-> TradingEnd]]]

\* The moments of a day the clock stops at: before the session, in it, in
\* its last two minutes, after it.
DayTimes == <<480, 600, 1074, 1080>>

\* datetime.now().strftime("%Y-%m-%d")
Date(t) == t \div Len(DayTimes)

\* datetime.now().time()
TimeOfDay(t) == DayTimes[(t % Len(DayTimes)) + 1]

Dates == 0..Date(MaxClock)

(***************************************************************************)
(* Daily statistics                                                        *)
(***************************************************************************)
ZeroStats(today_str) ==
    [date |-> today_str, trades |-> 0, pnl |-> 0, wins |-> 0, losses |-> 0]

\* load_daily_stats: the row of today, or a fresh row that is inserted; on a
\* database error only the in-memory stats are reset.
LoadDailyStats(table, today_str, db_ok) ==
    IF ~db_ok THEN [daily_stats |-> ZeroStats(today_str), stats_table |-> table]
    ELSE IF today_str \in DOMAIN table
    THEN [daily_stats |-> table[today_str], stats_table |-> table]
    ELSE [daily_stats |-> ZeroStats(today_str),
          stats_table |-> [d \in DOMAIN table \cup {today_str} |->
                             IF d = today_str THEN ZeroStats(today_str) ELSE table[d]]]

\* Variant: INSERT OR IGNORE, the row of a date is written once.
SaveDailyStatsOnce(table, stats, db_ok) ==
    IF ~db_ok \/ stats.date \in DOMAIN table THEN table
    ELSE [d \in DOMAIN table \cup {stats.date} |->
            IF d = stats.date THEN stats ELSE table[d]]

\* save_daily_stats: INSERT OR REPLACE of the in-memory stats
SaveDailyStats(table, stats, db_ok) ==
    IF ~db_ok THEN table
    ELSE [d \in DOMAIN table \cup {stats.date} |->
            IF d = stats.date THEN stats ELSE table[d]]

(***************************************************************************)
(* check_trading_allowed                                                   *)
(***************************************************************************)
WithinTradingHours(trading, t) ==
    /\ trading.trading_hours.start <= TimeOfDay(t)
    /\ TimeOfDay(t) <= trading.trading_hours.end

\* pnl < -(max_daily_loss_pct / 100.0) * (balance - pnl)
DailyLossReached(trading, balance, pnl) ==
    100 * pnl < -(trading.max_daily_loss_pct * (balance - pnl))

CheckTradingHoursOnly(trading, t, account, stats) == WithinTradingHours(trading, t)

CheckTradingAllowed(trading, t, account, stats) ==
    IF ~WithinTradingHours(trading, t) THEN FALSE
    ELSE IF DailyLossReached(trading, account.balance, stats.pnl) THEN FALSE
    ELSE TRUE

(***************************************************************************)
(* calculate_lot_size                                                      *)
(***************************************************************************)
RECURSIVE GCD(_, _)
GCD(a, b) == IF b = 0 THEN a ELSE GCD(b, a % b)

\* The fraction n/d (n >= 0, d > 0) in lowest terms.
Frac(n, d) == [num |-> n \div GCD(n, d), den |-> d \div GCD(n, d)]

FracLess(a, b) == a.num * b.den < b.num * a.den

\* Python round() of the non-negative fraction n/d: half goes to even.
RoundHalfEven(n, d) ==
    LET q == n \div d
        r == n % d
    IN  IF 2 * r < d THEN q
        ELSE IF 2 * r > d THEN q + 1
        ELSE IF q % 2 = 0 THEN q ELSE q + 1

NoLot == [lot |-> 0, risk_amount |-> None, risk_per_contract |-> None, lot_size |-> None]

\* risk_per_trade_pct / 100.0 * account_balance, with the percentage taken as given
RiskAmountUnscaled(trading, account) ==
    Frac(trading.risk_per_trade_pct * account.balance, 1)

\* risk_amount = (risk_per_trade_pct / 100.0) * account_balance
RiskAmount(trading, account) ==
    Frac(trading.risk_per_trade_pct * account.balance, 100)

\* symbol_info and tick are None when the terminal does not answer.
CalculateLotSize(trading, account, symbol_info, tick, stop_loss_price) ==
    IF symbol_info = None \/ tick = None THEN NoLot
    ELSE
    LET si == symbol_info[1]
        tk == tick[1]
        current_price == IF stop_loss_price < tk.bid THEN tk.ask ELSE tk.bid
        risk_points   == Abs(current_price - stop_loss_price)
    IN  IF risk_points = 0 THEN NoLot
        \* ZeroDivisionError, caught by the handler
        ELSE IF si.trade_tick_size = 0 \/ si.point = 0 THEN NoLot
        \* point_value == 0: config["assets"] is not a key of the configuration
        ELSE IF si.trade_tick_value = 0 THEN NoLot
        ELSE
        LET \* point_value = trade_tick_value / trade_tick_size * point
            point_value == Frac(si.trade_tick_value * si.point, si.trade_tick_size)
            \* risk_per_contract = risk_points / point * point_value
            risk_per_contract == Frac(risk_points * point_value.num,
                                      si.point * point_value.den)
        IN  IF risk_per_contract.num <= 0 THEN NoLot
            ELSE
            LET risk_amount == RiskAmount(trading, account)
                \* lot_size = risk_amount / risk_per_contract
                lot_size == Frac(risk_amount.num * risk_per_contract.den,
                                 risk_amount.den * risk_per_contract.num)
                \* in hundredths of a lot
                raw      == Frac(100 * lot_size.num, lot_size.den)
                at_least == IF FracLess(raw, Frac(si.volume_min, 1))
                            THEN Frac(si.volume_min, 1) ELSE raw
                at_most  == IF FracLess(Frac(si.volume_max, 1), at_least)
                            THEN Frac(si.volume_max, 1) ELSE at_least
                stepped  == IF si.volume_step # 0
                            THEN Frac(RoundHalfEven(at_most.num,
                                                    at_most.den * si.volume_step)
                                        * si.volume_step, 1)
                            ELSE at_most
            IN  [lot               |-> RoundHalfEven(stepped.num, stepped.den),
                 risk_amount       |-> Some(risk_amount),
                 risk_per_contract |-> Some(risk_per_contract),
                 lot_size          |-> Some(lot_size)]

(***************************************************************************)
(* The signal channel and the signal poller                                *)
(***************************************************************************)
\* A signal as generate_trading_signal builds it (the fields the executor reads).
TradingSignal(timestamp, signal_type) ==
    [asset            |-> "winfut",
     type             |-> signal_type,
     entry_price      |-> LastPrice,
     stop_loss        |-> IF signal_type = "Compra" THEN 9950 ELSE 10100,
     take_profit      |-> IF signal_type = "Compra" THEN 10200 ELSE 9700,
     timestamp        |-> timestamp,
     strategy_profile |-> "moderado"]

\* The signals send_signal_to_executor is called with.
Signals ==
    { TradingSignal(ts, IF ts % 2 = 1 THEN "Compra" ELSE "Venda") : ts \in 1..MaxSignals }

RequiredKeys == {"asset", "type", "stop_loss", "take_profit", "timestamp"}

\* a dedup test that never finds the timestamp
NeverProcessed(signal_timestamp, processed) == FALSE

\* signal_timestamp in self.processed_signal_timestamps
AlreadyProcessed(signal_timestamp, processed) == signal_timestamp \in processed

\* The for loop of signal_processor_thread over the signals read.
RECURSIVE ProcessSignals(_, _, _)
ProcessSignals(signals, processed, queue) ==
    IF signals = << >> THEN [processed |-> processed, queue |-> queue]
    ELSE
    LET signal == Head(signals)
        signal_timestamp == DictGet(signal, "timestamp", 0)
    IN  IF signal_timestamp = 0
        THEN ProcessSignals(Tail(signals), processed, queue)
        ELSE IF AlreadyProcessed(signal_timestamp, processed)
        THEN ProcessSignals(Tail(signals), processed, queue)
        ELSE IF ~(RequiredKeys \subseteq DOMAIN signal)
        THEN ProcessSignals(Tail(signals), processed \cup {signal_timestamp}, queue)
        ELSE
        LET order_details == [asset          |-> signal.asset,
                              type           |-> signal.type,
                              stop_loss      |-> signal.stop_loss,
                              take_profit    |-> signal.take_profit,
                              signal_details |-> signal]
        IN  ProcessSignals(Tail(signals), processed \cup {signal_timestamp},
                           Append(queue, order_details))

\* existing_signals = [] ; no call in progress
NoWriter == [pc |-> "idle", signal |-> None, existing_signals |-> << >>]

\* Nobody is in the middle of a write or of a poll.
ChannelIdle ==
    /\ file_valid = TRUE
    /\ fs_clock = 1
    /\ writer = NoWriter
    /\ poller = "idle"
    /\ written = << >>

NoChannel ==
    /\ signal_file = << >>
    /\ file_mtime = 0
    /\ ChannelIdle

\* json.load in the poller: a file that does not decode gives signals = []
LoadSignals(content, valid) == IF valid THEN content ELSE << >>

\* json.load in send_signal_to_executor: existing_signals = [] when there is
\* no file, and when the read or the decoding raises
ExistingSignals(content, mtime, valid, read_ok) ==
    IF mtime # 0 /\ valid /\ read_ok THEN content ELSE << >>

(***************************************************************************)
(* The terminal                                                            *)
(***************************************************************************)
AccountBalances == {100000}

\* What closing a position realizes.
Profits == {-4000, 2000}

\* WINFUT-like symbol: 1 per tick of 5 points, whole lots from 1 to 100.
SymbolInfo ==
    [trade_tick_value |-> 1, trade_tick_size |-> 5, point |-> 1,
     volume_min |-> 100, volume_max |-> 10000, volume_step |-> 100]

\* The quotes of the model; with the second one a stop at 9950 is at the price.
Ticks == { [bid |-> 10000, ask |-> 10005], [bid |-> 9950, ask |-> 9950] }

\* a query that does not look at the magic number
PositionsGetAll(terminal, magic) == terminal.positions

\* positions_get(magic=...)
PositionsGet(terminal, magic) == { p \in terminal.positions : p.magic = magic }

\* mt5.ORDER_TYPE_BUY if order_type == "BUY" else mt5.ORDER_TYPE_SELL
MT5OrderType(order_type) == IF order_type = "BUY" THEN "BUY" ELSE "SELL"

\* get_open_positions: the positions of this executor, [] when the query fails
GetOpenPositions(terminal, trading, positions_ok) ==
    IF positions_ok THEN PositionsGet(terminal, trading.magic_number) ELSE {}

\* close_all_positions: the positions it sends a closing order for.  list_ok
\* is the answer of its positions_get; quoted are the tickets for which
\* close_position gets as far as order_send (the position is found by its
\* ticket and the symbol has a tick).
CloseRequests(terminal, trading, list_ok, quoted) ==
    IF list_ok
    THEN { p \in PositionsGet(terminal, trading.magic_number) : p.ticket \in quoted }
    ELSE {}

\* now >= close_time_threshold, two minutes before the end of the session
InClosingWindow(trading, t) ==
    TimeOfDay(t) >= trading.trading_hours.end - CloseBufferMinutes

\* len(open_positions) >= config["trading"]["max_open_trades"]
MaxOpenReached(trading, open_positions) ==
    Cardinality(open_positions) >= trading.max_open_trades

\* a queue that hands out the item put last
QueueGetLast(queue) ==
    [item |-> queue[Len(queue)], rest |-> SubSeq(queue, 1, Len(queue) - 1)]

\* self.order_queue.get(): queue.Queue is first in, first out
QueueGet(queue) == [item |-> Head(queue), rest |-> Tail(queue)]

\* a lot check that lets every lot through
LotNeverRejected(lot_size) == FALSE

\* if lot_size <= 0: the order is ignored
LotRejected(lot_size) == lot_size <= 0

\* a status that does not look at the ticket
OrderStatusOpen(mt5_ticket) == "OPEN"

\* status = "OPEN" if mt5_ticket else "FAILED"  (tickets are positive)
OrderStatus(mt5_ticket) == IF mt5_ticket # None THEN "OPEN" ELSE "FAILED"

\* an insert that writes nothing
InsertOrderDropped(table, row, db_ok) == table

\* INSERT INTO executed_orders and commit; an exception is logged and the
\* worker goes on.
InsertOrder(table, row, db_ok) == IF db_ok THEN Append(table, row) ELSE table

NoOrder ==
    [run |-> 0, timestamp |-> 0, time |-> 0, pnl |-> 0, balance |-> 0,
     account_balance |-> 0, realized |-> 0, open |-> 0, outcome |-> "none", sent |-> FALSE,
     accepted |-> FALSE, stored |-> FALSE, stats_date |-> 0,
     volume |-> 0, type |-> "", ticket |-> None, recorded |-> FALSE]

NoSizing ==
    [trading |-> ExecutorConfig.trading, account |-> [balance |-> 0],
     symbol_info |-> None, tick |-> None, stop_loss |-> 0, result |-> NoLot,
     submitted |-> FALSE, done |-> TRUE]

ThreadNames == {"order", "signal", "monitor"}

\* self.stop_event = threading.Event(); self.threads = []; no connection yet
ThreadsNotStarted ==
    /\ stop_event = FALSE
    /\ threads = [t \in ThreadNames |-> "none"]
    /\ connections = [db |-> FALSE, mt5 |-> FALSE]
    /\ stopper = "idle"
    /\ in_flight = None
    /\ errors = << >>

\* No thread of the process is alive.
NoThreadAlive == \A t \in ThreadNames : threads[t] \in {"none", "exited"}

\* No update_daily_stats call yet: n calls, recorded the profits passed per
\* date, faults the dates with a load or a save the database refused, stored
\* whether the save of the last call was taken.
NoStatsCalls ==
    [n |-> 0, recorded |-> [d \in Dates |-> 0], faults |-> {}, stored |-> FALSE]

\* No read_rtd_data call yet: n calls; of the last one, the cells that fail
\* when read, the cells read, the data returned (None for (None, None)) and
\* the error history the call found.
NoRtdCall ==
    [n |-> 0, asset |-> "", failed |-> {}, read |-> {}, data |-> None, history |-> << >>]

NoMonitor ==
    [ran |-> FALSE, answered |-> FALSE, own |-> {}, foreign |-> {},
     requested |-> {}, closed |-> {}]

\* MT5OrderExecutor.__init__
ExecutorConstructed ==
    /\ running = FALSE
    /\ last_signal_file_mtime = 0
    /\ processed_signal_timestamps = {}
    /\ order_queue = << >>
    /\ daily_stats = [trades |-> 0, pnl |-> 0, wins |-> 0, losses |-> 0]
    /\ account_info = None
    /\ ThreadsNotStarted
    /\ stats_table = << >>
    /\ orders_table = << >>
    /\ mt5 \in { [positions |-> {}, balance |-> b, next_ticket |-> 1] : b \in AccountBalances }
    /\ run = 0
    /\ enqueued = << >>
    /\ handled = << >>
    /\ last_order = NoOrder
    /\ realized = [d \in Dates |-> 0]
    /\ stats_calls = NoStatsCalls
    /\ rtd_call = NoRtdCall
    /\ last_monitor = NoMonitor

(***************************************************************************)
(* The analyzer                                                            *)
(***************************************************************************)
NoResults == [wyckoff |-> Invalid, order_flow |-> Invalid, momentum |-> Invalid]

\* cell_ranges of the reader's default_config
ReaderAssets == {"winfut", "wdofut"}

\* ProfitRTDReader.__init__, and a market_data.db that does not exist yet
ReaderConstructed ==
    /\ rtd = [running |-> FALSE, starts |-> 0, last_data |-> << >>,
              last_read |-> << >>, data_queue |-> << >>, cell_errors |-> << >>]
    /\ market_table = << >>
    /\ ingested = {}

\* self.data_quality_issues = {}
NoQualityIssues ==
    /\ data_quality_issues = << >>
    /\ validations = << >>

\* self.last_chart_time = {}
NoCharts ==
    /\ last_chart_time = << >>
    /\ charts = {}

\* default_config["mt5_executor"]
DefaultAnalyzerConfig == [mt5_executor |-> [enabled |-> TRUE]]

\* No analysis module was called on its own.
NoModuleCall == [module |-> "", done |-> TRUE]

\* run_main_loop entered after start(): at the test of the stop flag
MainLoop == [pc |-> "loop", stop_event |-> FALSE]

NoEval == [asset |-> "", profile |-> "", results |-> NoResults, market_price |-> None,
           db_price |-> None, signal |-> None, done |-> TRUE]

\* One evaluation of (asset, profile) at the time now: generate_trading_signal
\* on the analysis results of a frame whose last price is fr.ultimo.
Evaluate(asset, profile_name, results, market_price, db_price) ==
    LET key == SignalKey(asset, profile_name)
        out == GenerateTradingSignal(asset, results, profile_name,
                                     GetProfileConfig(profile_name), now,
                                     last_signal_time, market_price, db_price)
    IN  /\ last_signal_time' = out.last_signal_time
        /\ emitted' = IF out.signal = None THEN emitted
                      ELSE [k \in DOMAIN emitted \cup {key} |->
                              IF k = key THEN Append(DictGet(emitted, key, << >>), now)
                              ELSE emitted[k]]
        /\ eval' = [asset |-> asset, profile |-> profile_name, results |-> results,
                    market_price |-> market_price, db_price |-> db_price,
                    signal |-> out.signal, done |-> TRUE]
        /\ UNCHANGED <<analysis, module_call, handoff_vars, now, channel_vars, executor_vars, store_vars,
                       mt5, history_vars>>

\* The frames of the analysis loop of the model: a full frame near support.
TickResults(cfg) ==
    LET fr == [n |-> 25, ultimo |-> LastPrice]
    IN  AnalysisResults(WyckoffFeatures(fr, { <<9950, 10200>> }),
                        OrderFlowFeatures(fr, {50}, { <<0, 0, 0>>, <<0, -1, 1>> }),
                        MomentumFeatures(fr, { <<1, 1, 0>>, <<-1, 1, 6>> }, {20}), cfg)

\* run_main_loop: one (asset, profile) evaluation of a tick
AnalyzeAssetWithProfile(asset, profile_name) ==
    \E results \in TickResults(GetProfileConfig(profile_name)) :
        /\ Evaluate(asset, profile_name, results, Some(LastPrice), None)
        /\ UNCHANGED quality_vars

\* The clock advances (it never goes back).
Tick ==
    /\ now < MaxTime
    /\ now' = now + 1
    /\ UNCHANGED <<analyzer_vars, channel_vars, executor_vars, store_vars, mt5, history_vars>>

InitAnalyzer ==
    /\ now = 0
    /\ last_signal_time = << >>
    /\ emitted = << >>
    /\ eval = NoEval
    /\ analysis = MainLoop
    /\ NoCharts
    /\ analyzer_config = DefaultAnalyzerConfig
    /\ module_call = NoModuleCall
    /\ NoQualityIssues
    /\ ReaderConstructed
    /\ NoChannel
    /\ ExecutorConstructed
    /\ sizing = NoSizing

NextAnalyzer ==
    \/ Tick
    \/ \E asset \in Assets, profile_name \in Profiles :
         AnalyzeAssetWithProfile(asset, profile_name)

SpecAnalyzer == InitAnalyzer /\ [][NextAnalyzer]_vars

(***************************************************************************)
(* generate_trading_signal as a function of its inputs: every frame and    *)
(* analysis result of the model, for every profile, with the pair's        *)
(* ledger entry absent or stamped at time 0.                               *)
(***************************************************************************)
InitDecision ==
    \E asset \in Assets, profile_name \in Profiles, fr \in Frames,
       t \in {0, MaxTime}, stamped \in BOOLEAN :
      \E results \in AllResults(fr, GetProfileConfig(profile_name)),
         db_price \in DbPrices(fr) :
        LET ledger == IF stamped
                      THEN [k \in {SignalKey(asset, profile_name)} |-> 0] ELSE << >>
        IN  /\ now = t
            /\ last_signal_time = ledger
            /\ emitted = [k \in DOMAIN ledger |-> << ledger[k] >>]
            /\ eval = [asset |-> asset, profile |-> profile_name, results |-> results,
                       market_price |-> Some(fr.ultimo), db_price |-> db_price,
                       signal |-> None, done |-> FALSE]
            /\ analysis = MainLoop
            /\ NoCharts
            /\ analyzer_config = DefaultAnalyzerConfig
            /\ module_call = NoModuleCall
            /\ NoQualityIssues
            /\ ReaderConstructed
            /\ NoChannel
            /\ ExecutorConstructed
            /\ sizing = NoSizing

Decide ==
    /\ ~eval.done
    /\ Evaluate(eval.asset, eval.profile, eval.results, eval.market_price, eval.db_price)
    /\ UNCHANGED quality_vars

NextDecision == Decide

SpecDecision == InitDecision /\ [][NextDecision]_vars

(***************************************************************************)
(* The three analysis modules, each called on its own on the features of   *)
(* a frame.  The signs of the window means, of the price changes and of    *)
(* the moving-average differences run over -1, 0, 1; the position in the   *)
(* range runs over both sides of 0.3 and 0.7, the lines themselves and a   *)
(* range of width 0; the tell counts over both sides of 5.                 *)
(***************************************************************************)
Signs == {-1, 0, 1}

\* frames of 8 rows (fewer than 10) and of 25 rows
FrameLengths == {8, 25}

\* (support, resistance) with the last price LastPrice at 0, 0.2, 0.3, 0.5,
\* 0.7 and 0.8 of the range, and on a range of width 0
RangePairs == { <<10000, 10100>>, <<9980, 10080>>, <<9970, 10070>>, <<9950, 10050>>,
                <<9930, 10030>>, <<9920, 10020>>, <<10000, 10000>> }

ModuleWyckoffFeatures ==
    { [empty |-> FALSE, n |-> n, ultimo |-> LastPrice, support |-> lp[1],
       resistance |-> lp[2], pdvu |-> tc[1], puvd |-> tc[2]] :
      n \in FrameLengths, lp \in RangePairs, tc \in {0, 5, 6} \X {0, 5, 6} }

ModuleOrderFlowFeatures ==
    { [empty |-> FALSE, n |-> n, strength10 |-> st, ratio10 |-> 0,
       recent_aggr |-> a[1], prev_aggr |-> a[2], recent_pchg |-> p[1], prev_pchg |-> p[2]] :
      n \in FrameLengths, st \in {0, 50}, a \in Signs \X Signs, p \in Signs \X Signs }

ModuleMomentumFeatures ==
    { [empty |-> FALSE, n |-> 25, prev_ma_diff |-> d[1], last_ma_diff |-> d[2],
       diff_pct |-> pc * d[2], roc10 |-> roc] :
      d \in Signs \X Signs, pc \in {0, 20, 60}, roc \in {-6, 0, 6} }

InitModules ==
    \E profile_name \in Profiles :
      \E call \in ({"wyckoff"} \X ModuleWyckoffFeatures)
                   \cup ({"order_flow"} \X ModuleOrderFlowFeatures)
                   \cup ({"momentum"} \X ModuleMomentumFeatures) :
        /\ module_call = [module |-> call[1], f |-> call[2], profile |-> profile_name,
                          result |-> Invalid, done |-> FALSE]
        /\ now = 0
        /\ last_signal_time = << >>
        /\ emitted = << >>
        /\ eval = NoEval
        /\ analysis = MainLoop
        /\ NoCharts
        /\ analyzer_config = DefaultAnalyzerConfig
        /\ NoQualityIssues
        /\ ReaderConstructed
        /\ NoChannel
        /\ ExecutorConstructed
        /\ sizing = NoSizing

\* The call returns: the result of the module on the features.
Returned(result) ==
    /\ module_call' = [module_call EXCEPT !.result = result, !.done = TRUE]
    /\ UNCHANGED <<now, last_signal_time, emitted, eval, analysis, quality_vars,
                   handoff_vars, channel_vars, executor_vars, store_vars, mt5, history_vars>>

CallWyckoff ==
    /\ ~module_call.done
    /\ module_call.module = "wyckoff"
    /\ Returned(AnalyzeWyckoff(module_call.f))

CallOrderFlow ==
    /\ ~module_call.done
    /\ module_call.module = "order_flow"
    /\ Returned(AnalyzeOrderFlow(module_call.f, GetProfileConfig(module_call.profile)))

CallMomentum ==
    /\ ~module_call.done
    /\ module_call.module = "momentum"
    /\ Returned(AnalyzeMomentum(module_call.f, GetProfileConfig(module_call.profile)))

NextModules == CallWyckoff \/ CallOrderFlow \/ CallMomentum

SpecModules == InitModules /\ [][NextModules]_vars

(***************************************************************************)
(* analyze_asset_with_profile after the three analyses: the decision, the  *)
(* diagnostic chart and the hand-off to the signal file.                   *)
(***************************************************************************)
\* analysis.chart_interval: 300 seconds, as analysis.signal_interval
ChartInterval == SignalInterval

\* chart_key = f"{asset}_{profile_name}"
ChartKey(asset, profile_name) == SignalKey(asset, profile_name)

\* should_generate_chart: a chart is due when none was stamped for the key or
\* chart_interval has passed; the call that finds one due stamps the time.
ShouldGenerateChart(lct, key, t) ==
    IF key \notin DOMAIN lct \/ t - lct[key] >= ChartInterval
    THEN [due |-> TRUE, last_chart_time |-> StampLedger(lct, key, t)]
    ELSE [due |-> FALSE, last_chart_time |-> lct]

\* generate_analysis_chart on a frame with rows: it asks should_generate_chart
\* itself, draws and saves; chart_ok: the drawing and the saving do not raise.
GenerateAnalysisChart(lct, key, t, chart_ok) ==
    LET s == ShouldGenerateChart(lct, key, t)
    IN  [saved |-> s.due /\ chart_ok, last_chart_time |-> s.last_chart_time]

\* generate_trading_signal, or its handler when a lookup before the levels
\* raises (fault): None is returned and the ledger is as it was.
GenerateTradingSignalOrError(asset, results, profile_name, t, lst, market_price, fault) ==
    IF fault THEN [signal |-> None, last_signal_time |-> lst]
    ELSE GenerateTradingSignal(asset, results, profile_name, GetProfileConfig(profile_name),
                               t, lst, market_price, None)

\* The analysis results of the evaluations, on a frame near its support:
\* (levels, tell counts, aggression strength, moving-average shape) with no
\* microsignal, with the aggression alone, with the accumulation and the
\* aggression, with the accumulation and the golden cross, and with the
\* accumulation and the aggression on a range that pays 1.5 to 1.
HandoffShapes ==
    { << <<9950, 10200>>, <<0, 0>>, 0, <<1, 1, 0>> >>,
      << <<9950, 10200>>, <<0, 0>>, 50, <<1, 1, 0>> >>,
      << <<9950, 10200>>, <<6, 6>>, 50, <<1, 1, 0>> >>,
      << <<9950, 10200>>, <<6, 6>>, 0, <<-1, 1, 6>> >>,
      << <<9900, 10150>>, <<6, 6>>, 50, <<1, 1, 0>> >> }

\* The analysis results of a frame of the shape sh
HandoffResults(sh, cfg) ==
    LET fr == [n |-> 25, ultimo |-> LastPrice]
    IN  AnalysisResults(
          { wf \in WyckoffFeatures(fr, {sh[1]}) : <<wf.pdvu, wf.puvd>> = sh[2] },
          OrderFlowFeatures(fr, {sh[3]}, { <<0, 0, 0>> }),
          MomentumFeatures(fr, {sh[4]}, {20}), cfg)

\* analyze_asset_with_profile from generate_trading_signal on: the chart when
\* there is a decision or one is due, then send_signal_to_executor when there
\* is a decision, on the results of a frame of the shape sh.  fault: a lookup
\* of generate_trading_signal raises; chart_ok: the drawing does not raise;
\* read_ok and write_ok: the signal file can be read, written.
AnalyzeAndHandOff(asset, profile_name, sh) ==
    /\ file_mtime < MaxFile
    /\ \E results \in HandoffResults(sh, GetProfileConfig(profile_name)) :
       \E key \in {SignalKey(asset, profile_name)}, fault \in BOOLEAN :
       \E out \in {GenerateTradingSignalOrError(asset, results, profile_name, now,
                                                last_signal_time, Some(LastPrice), fault)} :
       \E periodic \in {IF out.signal # None
                         THEN [due |-> TRUE, last_chart_time |-> last_chart_time]
                         ELSE ShouldGenerateChart(last_chart_time,
                                                  ChartKey(asset, profile_name), now)} :
       \E chart_ok \in BOOLEAN, read_ok \in BOOLEAN, write_ok \in BOOLEAN :
       \E chart \in {IF periodic.due
                      THEN GenerateAnalysisChart(periodic.last_chart_time,
                                                 ChartKey(asset, profile_name), now, chart_ok)
                      ELSE [saved |-> FALSE, last_chart_time |-> periodic.last_chart_time]} :
         /\ last_signal_time' = out.last_signal_time
         /\ emitted' = IF out.signal = None THEN emitted
                       ELSE [k \in DOMAIN emitted \cup {key} |->
                               IF k = key THEN Append(DictGet(emitted, key, << >>), now)
                               ELSE emitted[k]]
         /\ eval' = [asset |-> asset, profile |-> profile_name, results |-> results,
                     market_price |-> Some(LastPrice), db_price |-> None,
                     signal |-> out.signal, done |-> TRUE]
         /\ last_chart_time' = chart.last_chart_time
         /\ charts' = IF chart.saved THEN charts \cup {<<key, now>>} ELSE charts
         /\ IF out.signal # None /\ analyzer_config.mt5_executor.enabled /\ write_ok
            THEN /\ signal_file' = Append(ExistingSignals(signal_file, file_mtime,
                                                          file_valid, read_ok),
                                          out.signal[1])
                 /\ file_mtime' = file_mtime + 1
                 /\ file_valid' = TRUE
            ELSE UNCHANGED <<signal_file, file_mtime, file_valid>>
    /\ UNCHANGED <<now, analysis, quality_vars, module_call, analyzer_config, fs_clock,
                   writer, poller, written, executor_vars, store_vars, mt5, history_vars>>

\* The profiles the evaluations run under: the strictest and the loosest.
HandoffProfiles == {"conservador", "agressivo"}

\* The analyzer is constructed with the executor hand-off enabled or not.
InitHandoff ==
    /\ now = 0
    /\ last_signal_time = << >>
    /\ emitted = << >>
    /\ eval = NoEval
    /\ analysis = MainLoop
    /\ NoCharts
    /\ analyzer_config \in {[mt5_executor |-> [enabled |-> e]] : e \in BOOLEAN}
    /\ module_call = NoModuleCall
    /\ NoQualityIssues
    /\ ReaderConstructed
    /\ NoChannel
    /\ ExecutorConstructed
    /\ sizing = NoSizing

NextHandoff ==
    \/ Tick
    \/ \E asset \in Assets, profile_name \in HandoffProfiles, sh \in HandoffShapes :
         AnalyzeAndHandOff(asset, profile_name, sh)

SpecHandoff == InitHandoff /\ [][NextHandoff]_vars

(***************************************************************************)
(* The data quality guard, and the analysis of a frame that lacks columns. *)
(* A frame is the table get_latest_data read: its columns, the columns     *)
(* prepare_dataframe filled with the fallback value, and what the analyses *)
(* compute from the columns the table holds.                               *)
(***************************************************************************)
\* data_validation.required_columns of default_config
RequiredColumns(analysis_type) ==
    CASE analysis_type = "basic" -> <<"timestamp", "ultimo", "maximo", "minimo">>
      [] analysis_type = "wyckoff" -> <<"volume">>
      [] analysis_type = "order_flow" ->
            <<"agressao_compra", "agressao_venda", "agressao_saldo">>
      [] OTHER -> << >>

\* issue_key = f"{asset}_{analysis_type}"
IssueKey(asset, analysis_type) == asset \o "_" \o analysis_type

\* [col for col in required_columns if col not in df.columns]
MissingColumns(columns, analysis_type) ==
    SelectSeq(RequiredColumns(analysis_type), LAMBDA col : col \notin columns)

\* a guard that keeps the latest occurrence in the record
ValidateDataColumnsLatest(issues, df, asset, analysis_type, t) ==
    IF df = None \/ df[1].empty
    THEN [valid |-> FALSE, missing |-> <<"DataFrame vazio">>, issues |-> issues]
    ELSE
      LET missing == MissingColumns(df[1].columns, analysis_type)
          key     == IssueKey(asset, analysis_type)
          count   == IF key \in DOMAIN issues THEN issues[key].count + 1 ELSE 1
          issue   == [asset |-> asset, analysis_type |-> analysis_type,
                      missing_columns |-> missing, first_detected |-> t,
                      count |-> count]
      IN  IF missing # << >>
          THEN [valid |-> FALSE, missing |-> missing,
                issues |-> [k \in DOMAIN issues \cup {key} |->
                              IF k = key THEN issue ELSE issues[k]]]
          ELSE [valid |-> TRUE, missing |-> << >>, issues |-> issues]

\* validate_data_columns at the time t, on the issues recorded so far: the
\* answer (valid, missing) and the issues afterwards
ValidateDataColumns(issues, df, asset, analysis_type, t) ==
    IF df = None \/ df[1].empty
    THEN [valid |-> FALSE, missing |-> <<"DataFrame vazio">>, issues |-> issues]
    ELSE
      LET missing == MissingColumns(df[1].columns, analysis_type)
          key     == IssueKey(asset, analysis_type)
          issue   == [asset |-> asset, analysis_type |-> analysis_type,
                      missing_columns |-> missing, first_detected |-> t,
                      count |-> 1]
      IN  IF missing # << >>
          THEN [valid |-> FALSE, missing |-> missing,
                issues |-> IF key \notin DOMAIN issues
                           THEN [k \in DOMAIN issues \cup {key} |->
                                   IF k = key THEN issue ELSE issues[k]]
                           ELSE [issues EXCEPT ![key].count = @ + 1]]
          ELSE [valid |-> TRUE, missing |-> << >>, issues |-> issues]

\* prepare_dataframe: a copy of the frame in which each required column the
\* frame lacks holds the fallback value (0 for every column of the default
\* configuration)
PrepareDataframe(df, analysis_type) ==
    IF df = None \/ df[1].empty THEN None
    ELSE LET lacking == { RequiredColumns(analysis_type)[i] :
                            i \in 1..Len(RequiredColumns(analysis_type)) }
                        \ df[1].columns
         IN  Some([df[1] EXCEPT !.columns = @ \cup lacking, !.filled = @ \cup lacking])

\* What analyze_wyckoff reads from the frame: a volume that is 0 in every
\* row never goes up or down.
WyckoffOfFrame(frame) ==
    LET still == "volume" \in frame.filled
    IN  [empty |-> FALSE, n |-> frame.n, ultimo |-> frame.ultimo,
         support |-> frame.support, resistance |-> frame.resistance,
         pdvu |-> IF still THEN 0 ELSE frame.pdvu,
         puvd |-> IF still THEN 0 ELSE frame.puvd]

\* What analyze_order_flow reads from the frame: the balance column gives the
\* strength and the balances of the two windows, the sum of the buying and
\* selling columns over the last rows gives the absorption ratio.
OrderFlowOfFrame(frame) ==
    LET no_balance == "agressao_saldo" \in frame.filled
    IN  [empty |-> FALSE, n |-> frame.n,
         strength10 |-> IF no_balance THEN 0 ELSE frame.strength10,
         ratio10 |-> (IF "agressao_compra" \in frame.filled THEN 0 ELSE frame.buy10)
                     + (IF "agressao_venda" \in frame.filled THEN 0 ELSE frame.sell10),
         recent_aggr |-> IF no_balance THEN 0 ELSE frame.recent_aggr,
         prev_aggr |-> IF no_balance THEN 0 ELSE frame.prev_aggr,
         recent_pchg |-> 0, prev_pchg |-> 0]

\* an exception on its way to the caller
Raised == [valid |-> FALSE, raised |-> TRUE]

\* a handler that lets the exception through
ExceptReraise(result) == result

\* except Exception as e: ... return {"valid": False, "message": ...}
ExceptInvalid(result) == IF "raised" \in DOMAIN result THEN Invalid ELSE result

\* analyze_wyckoff on a frame of the table: the validation of its columns,
\* the preparation, and the analysis
AnalyzeWyckoffFrame(issues, df, asset, t) ==
    IF df = None \/ df[1].empty THEN [result |-> Invalid, issues |-> issues]
    ELSE LET v     == ValidateDataColumns(issues, df, asset, "wyckoff", t)
             ready == IF v.valid THEN df ELSE PrepareDataframe(df, "wyckoff")
         IN  [result |-> AnalyzeWyckoff(WyckoffOfFrame(ready[1])), issues |-> v.issues]

\* analyze_order_flow on a frame of the table.  fault: a computation on the
\* values of the frame raises.
AnalyzeOrderFlowFrame(issues, df, asset, cfg, fault, t) ==
    IF df = None \/ df[1].empty THEN [result |-> Invalid, issues |-> issues]
    ELSE LET v     == ValidateDataColumns(issues, df, asset, "order_flow", t)
             ready == IF v.valid THEN df ELSE PrepareDataframe(df, "order_flow")
             body  == IF MissingColumns(ready[1].columns, "order_flow") # << >>
                      THEN Invalid
                      ELSE IF fault THEN Raised
                      ELSE AnalyzeOrderFlow(OrderFlowOfFrame(ready[1]), cfg)
         IN  [result |-> ExceptInvalid(body), issues |-> v.issues]

\* analyze_momentum on a frame of the table (it requires no column)
AnalyzeMomentumFrame(issues, df, asset, cfg, t) ==
    IF df = None \/ df[1].empty THEN [result |-> Invalid, issues |-> issues]
    ELSE LET v == ValidateDataColumns(issues, df, asset, "momentum", t)
         IN  [result |-> AnalyzeMomentum(df[1].momentum, cfg), issues |-> v.issues]

\* validate_data_columns is called at most MaxValidations times.
MaxValidations == 8

BasicColumns == {"timestamp", "ultimo", "maximo", "minimo"}

OptionalColumns == {"volume", "agressao_compra", "agressao_venda", "agressao_saldo"}

\* The tables of the model: 25 rows near support with buying aggression, a
\* golden cross and volume tells, holding every basic column and any of the
\* others, or lacking a basic column.
Tables ==
    { [columns |-> cols, n |-> 25, ultimo |-> LastPrice, support |-> 9950,
       resistance |-> 10200, pdvu |-> 6, puvd |-> 6, strength10 |-> 50,
       buy10 |-> 20, sell10 |-> 10, recent_aggr |-> -1, prev_aggr |-> 1,
       momentum |-> [empty |-> FALSE, n |-> 25, prev_ma_diff |-> -1,
                     last_ma_diff |-> 1, diff_pct |-> 20, roc10 |-> 6]] :
      cols \in { BasicColumns \cup c : c \in SUBSET OptionalColumns }
               \cup { OptionalColumns \cup (BasicColumns \ {"maximo"}) } }

\* history: one call of validate_data_columns
Validation(asset, analysis_type, columns) ==
    [asset |-> asset, analysis_type |-> analysis_type,
     missing |-> MissingColumns(columns, analysis_type), time |-> now]

\* analyze_asset_with_profile on the table get_latest_data finds: the basic
\* validation, the three analyses with their validations, and the decision.
\* An exception that came out of an analysis would end the evaluation in the
\* handler of analyze_asset_with_profile.
AnalyzeLatestData(asset, profile_name, table, fault) ==
    LET cfg   == GetProfileConfig(profile_name)
        df    == Some(table @@ [empty |-> FALSE, filled |-> {}])
        basic == ValidateDataColumns(data_quality_issues, df, asset, "basic", now)
        w     == AnalyzeWyckoffFrame(basic.issues, df, asset, now)
        o     == AnalyzeOrderFlowFrame(w.issues, df, asset, cfg, fault, now)
        m     == AnalyzeMomentumFrame(o.issues, df, asset, cfg, now)
        seen(kinds) == validations \o
                         [i \in 1..Len(kinds) |-> Validation(asset, kinds[i], table.columns)]
        others == <<analysis, module_call, handoff_vars, now, channel_vars, executor_vars, store_vars, mt5,
                    history_vars>>
    IN  /\ Len(validations) + 4 <= MaxValidations
        /\ IF ~basic.valid
           THEN /\ data_quality_issues' = basic.issues
                /\ validations' = seen(<<"basic">>)
                /\ UNCHANGED <<last_signal_time, emitted, eval, others>>
           ELSE IF "raised" \in DOMAIN o.result
           THEN /\ data_quality_issues' = o.issues
                /\ validations' = seen(<<"basic", "wyckoff", "order_flow">>)
                /\ eval' = [asset |-> asset, profile |-> profile_name,
                            results |-> NoResults, market_price |-> Some(table.ultimo),
                            db_price |-> None, signal |-> None, done |-> FALSE]
                /\ UNCHANGED <<last_signal_time, emitted, others>>
           ELSE /\ data_quality_issues' = m.issues
                /\ validations' = seen(<<"basic", "wyckoff", "order_flow", "momentum">>)
                /\ Evaluate(asset, profile_name,
                            [wyckoff |-> w.result, order_flow |-> o.result,
                             momentum |-> m.result], Some(table.ultimo), None)

InitQuality ==
    /\ now = 0
    /\ last_signal_time = << >>
    /\ emitted = << >>
    /\ eval = NoEval
    /\ analysis = MainLoop
    /\ NoCharts
    /\ analyzer_config = DefaultAnalyzerConfig
    /\ module_call = NoModuleCall
    /\ NoQualityIssues
    /\ ReaderConstructed
    /\ NoChannel
    /\ ExecutorConstructed
    /\ sizing = NoSizing

NextQuality ==
    \/ Tick
    \/ \E asset \in Assets, profile_name \in Profiles, table \in Tables,
          fault \in BOOLEAN :
         AnalyzeLatestData(asset, profile_name, table, fault)

SpecQuality == InitQuality /\ [][NextQuality]_vars

(***************************************************************************)
(* The ingestion: ProfitRTDReader reads the cells of each asset in its     *)
(* main loop, queues what changed, and its processor thread stores the     *)
(* rows in market_data.db.  One read of an asset per unit of the clock     *)
(* (the loop sleeps polling_interval between two reads).                   *)
(***************************************************************************)
\* The reader is started at most MaxStarts times.
MaxStarts == 2

\* The cells of an asset as read: the last price
CellData == { [ultimo |-> "10000"], [ultimo |-> "10005"] }

\* setup_database: DROP TABLE IF EXISTS and CREATE TABLE for each asset of
\* cell_ranges
SetupDatabase(table) == [a \in ReaderAssets |-> << >>]

\* INSERT OR REPLACE INTO rtd_data_<asset>, timestamp being the primary key
InsertOrReplace(rows, timestamp, data) ==
    [ts \in DOMAIN rows \cup {timestamp} |-> IF ts = timestamp THEN data ELSE rows[ts]]

\* start(): setup_database, and the processor thread.  When the database
\* cannot be opened start() gives up.
ReaderStart(db_ok) ==
    /\ ~rtd.running
    /\ rtd.starts < MaxStarts
    /\ IF db_ok
       THEN /\ market_table' = SetupDatabase(market_table)
            /\ rtd' = [running |-> TRUE, starts |-> rtd.starts + 1, last_data |-> << >>,
                       last_read |-> << >>, data_queue |-> << >>,
                       cell_errors |-> << >>]
       ELSE /\ rtd' = [rtd EXCEPT !.starts = @ + 1]
            /\ UNCHANGED market_table
    /\ UNCHANGED <<now, analyzer_vars, channel_vars, executor_vars, stats_table,
                   orders_table, ingested, mt5, history_vars>>

\* run_main_loop: read_rtd_data(asset); data that differ from the last ones
\* read are put on the queue with the time of the read
ReadRtdData(asset, data) ==
    /\ rtd.running
    /\ DictGet(rtd.last_read, asset, -1) < now
    /\ LET changed == asset \notin DOMAIN rtd.last_data \/ rtd.last_data[asset] # data
           set(d, v) == [a \in DOMAIN d \cup {asset} |-> IF a = asset THEN v ELSE d[a]]
       IN  rtd' = [rtd EXCEPT
                     !.last_read = set(@, now),
                     !.last_data = IF changed THEN set(@, data) ELSE @,
                     !.data_queue = IF changed THEN Append(@, <<asset, data, now>>)
                                    ELSE @]
    /\ UNCHANGED <<now, analyzer_vars, channel_vars, executor_vars, stats_table,
                   orders_table, market_table, ingested, mt5, history_vars>>

\* data_processor_thread: the next item of the queue, store_data_in_db
StoreDataInDb(db_ok) ==
    /\ rtd.running
    /\ rtd.data_queue # << >>
    /\ LET item      == Head(rtd.data_queue)
           asset     == item[1]
           data      == item[2]
           timestamp == item[3]
       IN  /\ rtd' = [rtd EXCEPT !.data_queue = Tail(@)]
           /\ IF db_ok
              THEN /\ market_table' =
                        [market_table EXCEPT
                           ![asset] = InsertOrReplace(@, timestamp, data)]
                   /\ ingested' = ingested \cup
                        { [asset |-> asset, timestamp |-> timestamp, data |-> data] }
              ELSE UNCHANGED <<market_table, ingested>>
    /\ UNCHANGED <<now, analyzer_vars, channel_vars, executor_vars, stats_table,
                   orders_table, mt5, history_vars>>

\* stop(): the threads end, the connection is closed
ReaderStop ==
    /\ rtd.running
    /\ rtd' = [rtd EXCEPT !.running = FALSE]
    /\ UNCHANGED <<now, analyzer_vars, channel_vars, executor_vars, stats_table,
                   orders_table, market_table, ingested, mt5, history_vars>>

InitStore ==
    /\ now = 0
    /\ last_signal_time = << >>
    /\ emitted = << >>
    /\ eval = NoEval
    /\ analysis = MainLoop
    /\ NoCharts
    /\ analyzer_config = DefaultAnalyzerConfig
    /\ module_call = NoModuleCall
    /\ NoQualityIssues
    /\ ReaderConstructed
    /\ NoChannel
    /\ ExecutorConstructed
    /\ sizing = NoSizing

NextStore ==
    \/ Tick
    \/ \E db_ok \in BOOLEAN : ReaderStart(db_ok)
    \/ \E asset \in ReaderAssets, data \in CellData : ReadRtdData(asset, data)
    \/ \E db_ok \in BOOLEAN : StoreDataInDb(db_ok)
    \/ ReaderStop

SpecStore == InitStore /\ [][NextStore]_vars

(***************************************************************************)
(* The executor process                                                    *)
(***************************************************************************)
\* A new process: __init__, then start() with connect_mt5 and
\* setup_database_connection (which ends with load_daily_stats).
Start ==
    /\ ~running
    /\ NoThreadAlive
    /\ stopper # "join"
    /\ run < MaxRuns
    /\ stop_event' = FALSE
    /\ threads' = [t \in ThreadNames |-> "loop"]
    /\ connections' = [db |-> TRUE, mt5 |-> TRUE]
    /\ stopper' = "idle"
    /\ in_flight' = None
    /\ UNCHANGED errors
    /\ \E db_ok \in BOOLEAN :
         LET loaded == LoadDailyStats(stats_table, Date(now), db_ok)
         IN  /\ daily_stats' = loaded.daily_stats
             /\ stats_table' = loaded.stats_table
             /\ stats_calls' = [stats_calls EXCEPT
                                  !.faults = IF db_ok THEN @ ELSE @ \cup {Date(now)}]
    /\ running' = TRUE
    /\ run' = run + 1
    /\ last_signal_file_mtime' = 0
    /\ processed_signal_timestamps' = {}
    /\ order_queue' = << >>
    /\ account_info' = Some([balance |-> mt5.balance])
    /\ UNCHANGED <<now, analyzer_vars, channel_vars, orders_table, ingest_vars, mt5,
                   enqueued, handled, last_order, realized, sizing, last_monitor, rtd_call>>

\* stop() with every thread at the top of its loop: each sees the flag and
\* ends within the join, the connections are closed and the process exits.
Stop ==
    /\ running
    /\ \A t \in ThreadNames : threads[t] = "loop"
    /\ running' = FALSE
    /\ stop_event' = TRUE
    /\ threads' = [t \in ThreadNames |-> "exited"]
    /\ connections' = [db |-> FALSE, mt5 |-> FALSE]
    /\ stopper' = "done"
    /\ UNCHANGED <<in_flight, errors>>
    /\ UNCHANGED <<now, analyzer_vars, channel_vars, last_signal_file_mtime,
                   processed_signal_timestamps, order_queue, daily_stats,
                   account_info, store_vars, mt5, history_vars>>

\* send_signal_to_executor with no poll during the call and a later mtime
\* for each write: the analyzer reads the list, appends, writes it back.
SendSignalToExecutor(signal, read_ok) ==
    /\ file_mtime < MaxFile
    /\ writer.pc = "idle"
    /\ signal_file' = Append(ExistingSignals(signal_file, file_mtime, file_valid, read_ok),
                             signal)
    /\ file_mtime' = file_mtime + 1
    /\ file_valid' = TRUE
    /\ UNCHANGED <<fs_clock, writer, poller, written>>
    /\ UNCHANGED <<now, analyzer_vars, executor_vars, store_vars, mt5, history_vars>>

\* One iteration of signal_processor_thread.
PollSignals ==
    /\ running
    /\ file_mtime # 0
    /\ file_mtime > last_signal_file_mtime
    /\ last_signal_file_mtime' = file_mtime
    /\ poller = "idle"
    /\ LET out == ProcessSignals(LoadSignals(signal_file, file_valid),
                                 processed_signal_timestamps, << >>)
       IN  /\ processed_signal_timestamps' = out.processed
           /\ order_queue' = order_queue \o out.queue
           /\ enqueued' = enqueued \o
                [i \in 1..Len(out.queue) |->
                   <<run, out.queue[i].signal_details.timestamp>>]
    /\ UNCHANGED <<now, analyzer_vars, channel_vars, running, daily_stats,
                   account_info, thread_vars, store_vars, mt5, run, handled, last_order,
                   realized, sizing, last_monitor, stats_calls, rtd_call>>

\* The body of order_processor_thread for one order, up to the return of
\* send_market_order: the gates, the lot, the submission, and the row
\* that is to be inserted.  positions_ok, symbol_info, tick and send_ok are
\* the answers of the terminal.
HandleOrder(order, positions_ok, symbol_info, tick, send_ok) ==
    LET trading == ExecutorConfig.trading
        allowed == CheckTradingAllowed(trading, now, account_info[1], daily_stats)
        open_positions == GetOpenPositions(mt5, trading, positions_ok)
        full    == MaxOpenReached(trading, open_positions)
        size    == CalculateLotSize(trading, account_info[1], symbol_info, tick,
                                    order.stop_loss)
        lot_size == size.lot
        sent    == allowed /\ ~full /\ ~LotRejected(lot_size)
        \* send_market_order: order_send answers TRADE_RETCODE_DONE
        accepted == sent /\ symbol_info # None /\ send_ok
        \* send_market_order returns the ticket, or None
        mt5_ticket == IF accepted THEN Some(mt5.next_ticket) ELSE None
        status  == OrderStatus(mt5_ticket)
    IN  [sent |-> sent, accepted |-> accepted, mt5_ticket |-> mt5_ticket,
         lot_size |-> lot_size,
         outcome |-> IF ~allowed THEN "not_allowed"
                     ELSE IF full THEN "max_open"
                     ELSE IF LotRejected(lot_size) THEN "invalid_lot"
                     ELSE status,
         row |-> [mt5_ticket |-> mt5_ticket, asset |-> order.asset,
                  type |-> order.type, volume |-> lot_size,
                  price |-> DictGet(order.signal_details, "entry_price", 0),
                  sl |-> order.stop_loss, tp |-> order.take_profit,
                  status |-> status,
                  signal_timestamp |-> order.signal_details.timestamp,
                  strategy_profile |-> order.signal_details.strategy_profile,
                  run |-> run],
         position |-> [ticket |-> mt5.next_ticket, symbol |-> order.asset,
                       type |-> MT5OrderType(order.type), volume |-> lot_size,
                       magic |-> trading.magic_number],
         terminal |-> IF accepted
                      THEN [mt5 EXCEPT !.positions = @ \cup
                                         {[ticket |-> mt5.next_ticket,
                                           symbol |-> order.asset,
                                           type |-> MT5OrderType(order.type),
                                           volume |-> lot_size,
                                           magic |-> trading.magic_number]},
                                       !.next_ticket = @ + 1]
                      ELSE mt5]

\* What the worker saw and did for an order.
OrderSeen(order, h, recorded, stored) ==
    [run |-> run,
     timestamp |-> order.signal_details.timestamp,
     time |-> now, pnl |-> daily_stats.pnl,
     balance |-> account_info[1].balance,
     account_balance |-> mt5.balance,
     realized |-> realized[Date(now)],
     open |-> Cardinality(PositionsGet(mt5, ExecutorConfig.trading.magic_number)),
     outcome |-> h.outcome, sent |-> h.sent,
     accepted |-> h.accepted,
     stored |-> stored,
     stats_date |-> daily_stats.date,
     volume |-> IF h.sent THEN h.lot_size ELSE 0,
     type |-> IF h.sent THEN MT5OrderType(order.type) ELSE "",
     ticket |-> h.mt5_ticket,
     recorded |-> recorded]

\* One iteration of order_processor_thread with an order in the queue.
\* positions_ok, symbol_info, tick, send_ok and db_ok are the answers of the
\* terminal and of the database.
ProcessOrder(positions_ok, symbol_info, tick, send_ok, db_ok) ==
    /\ running
    /\ order_queue # << >>
    /\ \E got \in {QueueGet(order_queue)} :
       \E order \in {got.item} :
       \E h \in {HandleOrder(order, positions_ok, symbol_info, tick, send_ok)} :
           /\ order_queue' = got.rest
           /\ mt5' = h.terminal
           /\ orders_table' = IF h.sent THEN InsertOrder(orders_table, h.row, db_ok)
                              ELSE orders_table
           /\ handled' = Append(handled, [run |-> run,
                                          timestamp |-> order.signal_details.timestamp,
                                          mtime |-> last_signal_file_mtime,
                                          sent |-> h.sent,
                                          accepted |-> h.accepted])
           /\ last_order' = OrderSeen(order, h, h.sent /\ db_ok, db_ok)
    /\ UNCHANGED <<now, analyzer_vars, channel_vars, running, last_signal_file_mtime,
                   processed_signal_timestamps, daily_stats, account_info, thread_vars,
                   stats_table, ingest_vars, run, enqueued, realized, sizing,
                   last_monitor, stats_calls, rtd_call>>

\* The terminal closes a position (stop or target reached): the profit is
\* realized on the account.
ClosePositions(closed, profit) ==
    /\ mt5' = [mt5 EXCEPT !.positions = @ \ closed,
                          !.balance = @ + profit * Cardinality(closed)]
    /\ realized' = [realized EXCEPT ![Date(now)] = @ + profit * Cardinality(closed)]

PositionClosedByTerminal ==
    /\ \E p \in mt5.positions, profit \in Profits : ClosePositions({p}, profit)
    /\ UNCHANGED <<now, analyzer_vars, channel_vars, executor_vars, store_vars,
                   run, enqueued, handled, last_order, sizing, last_monitor, stats_calls,
                   rtd_call>>

\* One iteration of position_monitor_thread: in the closing window, with
\* open positions reported, close_all_positions sends a closing order for
\* each position of this executor; close_position leaves daily_stats and the
\* orders table alone.  done are the tickets whose closing order the terminal
\* executes.
MonitorPositions(positions_ok, list_ok, quoted, done, profit) ==
    /\ running
    /\ LET trading == ExecutorConfig.trading
           open_positions == GetOpenPositions(mt5, trading, positions_ok)
           window   == InClosingWindow(trading, now)
           requests == IF window /\ open_positions # {}
                       THEN CloseRequests(mt5, trading, list_ok, quoted)
                       ELSE {}
           closed   == { p \in requests : p.ticket \in done }
           own      == { p.ticket : p \in { q \in mt5.positions :
                                               q.magic = trading.magic_number } }
       IN  /\ ClosePositions(closed, profit)
           /\ last_monitor' =
                 IF window
                 THEN [ran |-> TRUE,
                       answered |-> positions_ok /\ list_ok /\ own \subseteq quoted,
                       own |-> own,
                       foreign |-> { p.ticket : p \in mt5.positions } \ own,
                       requested |-> { p.ticket : p \in requests },
                       closed |-> { p.ticket : p \in closed }]
                 ELSE last_monitor
    /\ UNCHANGED <<now, analyzer_vars, channel_vars, executor_vars, store_vars,
                   run, enqueued, handled, last_order, sizing, stats_calls, rtd_call>>

\* The monitor, whatever the terminal answers.
PositionMonitor ==
    \E positions_ok \in BOOLEAN, list_ok \in BOOLEAN,
       quoted \in SUBSET { p.ticket : p \in mt5.positions }, profit \in Profits :
      \E done \in SUBSET quoted :
        MonitorPositions(positions_ok, list_ok, quoted, done, profit)

\* update_daily_stats(profit): the statistics of a new day are loaded first;
\* the trade is counted and the row of the day is saved.
RecordTrade(profit, db_ok) ==
    /\ running
    /\ LET today_str == Date(now)
           loaded == IF daily_stats.date # today_str
                     THEN LoadDailyStats(stats_table, today_str, db_ok)
                     ELSE [daily_stats |-> daily_stats, stats_table |-> stats_table]
           stats  == [loaded.daily_stats EXCEPT
                        !.trades = @ + 1,
                        !.pnl    = @ + profit,
                        !.wins   = IF profit > 0 THEN @ + 1 ELSE @,
                        !.losses = IF profit > 0 THEN @ ELSE @ + 1]
       IN  /\ daily_stats' = stats
           /\ stats_table' = SaveDailyStats(loaded.stats_table, stats, db_ok)
           /\ stats_calls' =
                 [n        |-> stats_calls.n + 1,
                  recorded |-> [stats_calls.recorded EXCEPT ![today_str] = @ + profit],
                  faults   |-> IF db_ok THEN stats_calls.faults
                               ELSE stats_calls.faults \cup {today_str},
                  stored   |-> db_ok]
    /\ UNCHANGED <<now, analyzer_vars, channel_vars, running, last_signal_file_mtime,
                   processed_signal_timestamps, order_queue, account_info, thread_vars,
                   orders_table, ingest_vars, mt5, run, enqueued, handled, last_order,
                   realized, sizing, last_monitor, rtd_call>>

\* update_daily_stats(profit), at most MaxTrades times a day
UpdateDailyStats(profit, db_ok) ==
    /\ daily_stats.trades < MaxTrades
    /\ RecordTrade(profit, db_ok)

\* The executor's clock advances.
ClockTick ==
    /\ now < MaxClock
    /\ now' = now + 1
    /\ UNCHANGED <<analyzer_vars, channel_vars, executor_vars, store_vars, mt5,
                   history_vars>>

InitExecutor ==
    /\ now \in {0, 1}
    /\ last_signal_time = << >>
    /\ emitted = << >>
    /\ eval = NoEval
    /\ analysis = MainLoop
    /\ NoCharts
    /\ analyzer_config = DefaultAnalyzerConfig
    /\ module_call = NoModuleCall
    /\ NoQualityIssues
    /\ ReaderConstructed
    /\ NoChannel
    /\ ExecutorConstructed
    /\ sizing = NoSizing

\* The worker handling the order at the head of the queue, whatever the
\* terminal and the database answer.
OrderProcessor ==
    \E positions_ok \in BOOLEAN, symbol_info \in {None, Some(SymbolInfo)},
       tick \in {None} \cup { Some(tk) : tk \in Ticks },
       send_ok \in BOOLEAN, db_ok \in BOOLEAN :
      ProcessOrder(positions_ok, symbol_info, tick, send_ok, db_ok)

\* The executor over starts and stops, fed by the analyzer through the
\* signal file, at one moment of the day: before the session or in it.
NextExecutor ==
    \/ Start
    \/ Stop
    \/ \E signal \in Signals, read_ok \in BOOLEAN : SendSignalToExecutor(signal, read_ok)
    \/ PollSignals
    \/ OrderProcessor

SpecExecutor == InitExecutor /\ [][NextExecutor]_vars

\* One executor process over the days, with the decisions already in the
\* signal file when it starts.
InitRisk ==
    /\ now = 0
    /\ last_signal_time = << >>
    /\ emitted = << >>
    /\ eval = NoEval
    /\ analysis = MainLoop
    /\ NoCharts
    /\ analyzer_config = DefaultAnalyzerConfig
    /\ module_call = NoModuleCall
    /\ NoQualityIssues
    /\ ReaderConstructed
    /\ signal_file = [i \in 1..MaxSignals |->
                        TradingSignal(i, IF i % 2 = 1 THEN "Compra" ELSE "Venda")]
    /\ file_mtime = 1
    /\ ChannelIdle
    /\ ExecutorConstructed
    /\ sizing = NoSizing

NextRisk ==
    \/ Start
    \/ PollSignals
    \/ OrderProcessor
    \/ PositionClosedByTerminal
    \/ \E profit \in Profits, db_ok \in BOOLEAN : UpdateDailyStats(profit, db_ok)
    \/ ClockTick

SpecRisk == InitRisk /\ [][NextRisk]_vars

(***************************************************************************)
(* The signal file between an analyzer that rewrites it and an executor    *)
(* that polls it: the steps of send_signal_to_executor and of one          *)
(* iteration of signal_processor_thread, each a system call of its own,    *)
(* and the clock that stamps the modification time, which need not advance *)
(* between two calls.                                                      *)
(***************************************************************************)
MaxFsClock == 2

\* send_signal_to_executor, first part: existing_signals is read
BeginSend(signal, read_ok) ==
    /\ writer.pc = "idle"
    /\ Len(written) < MaxFile
    /\ writer' = [pc |-> "open", signal |-> Some(signal),
                  existing_signals |->
                      ExistingSignals(signal_file, file_mtime, file_valid, read_ok)]
    /\ UNCHANGED <<signal_file, file_mtime, file_valid, fs_clock, poller, written>>
    /\ UNCHANGED <<now, analyzer_vars, executor_vars, store_vars, mt5, history_vars>>

\* open(signal_file, 'w'): the file is created or truncated
OpenForWrite ==
    /\ writer.pc = "open"
    /\ signal_file' = << >>
    /\ file_valid' = FALSE
    /\ file_mtime' = fs_clock
    /\ writer' = [writer EXCEPT !.pc = "dump"]
    /\ UNCHANGED <<fs_clock, poller, written>>
    /\ UNCHANGED <<now, analyzer_vars, executor_vars, store_vars, mt5, history_vars>>

\* existing_signals.append(signal); json.dump; the file is closed
DumpSignals ==
    /\ writer.pc = "dump"
    /\ signal_file' = Append(writer.existing_signals, writer.signal[1])
    /\ file_valid' = TRUE
    /\ file_mtime' = fs_clock
    /\ writer' = NoWriter
    /\ written' = Append(written, writer.signal[1].timestamp)
    /\ UNCHANGED <<fs_clock, poller>>
    /\ UNCHANGED <<now, analyzer_vars, executor_vars, store_vars, mt5, history_vars>>

\* The clock of the modification times advances by one unit of its resolution.
FsClockTick ==
    /\ fs_clock < MaxFsClock
    /\ fs_clock' = fs_clock + 1
    /\ UNCHANGED <<signal_file, file_mtime, file_valid, writer, poller, written>>
    /\ UNCHANGED <<now, analyzer_vars, executor_vars, store_vars, mt5, history_vars>>

\* signal_processor_thread: os.path.getmtime and the comparison with the
\* last mtime; a modified file is going to be read.
CheckMtime ==
    /\ running
    /\ poller = "idle"
    /\ file_mtime # 0
    /\ file_mtime > last_signal_file_mtime
    /\ last_signal_file_mtime' = file_mtime
    /\ poller' = "read"
    /\ UNCHANGED <<signal_file, file_mtime, file_valid, fs_clock, writer, written>>
    /\ UNCHANGED <<now, analyzer_vars, running, processed_signal_timestamps,
                   order_queue, daily_stats, account_info, thread_vars, store_vars, mt5,
                   history_vars>>

\* signal_processor_thread: the file is opened and decoded, and the signals
\* read go through the loop.
ReadSignalFile ==
    /\ poller = "read"
    /\ poller' = "idle"
    /\ LET out == ProcessSignals(LoadSignals(signal_file, file_valid),
                                 processed_signal_timestamps, << >>)
       IN  /\ processed_signal_timestamps' = out.processed
           /\ order_queue' = order_queue \o out.queue
           /\ enqueued' = enqueued \o
                [i \in 1..Len(out.queue) |->
                   <<run, out.queue[i].signal_details.timestamp>>]
    /\ UNCHANGED <<signal_file, file_mtime, file_valid, fs_clock, writer, written>>
    /\ UNCHANGED <<now, analyzer_vars, running, last_signal_file_mtime, daily_stats,
                   account_info, thread_vars, store_vars, mt5, run, handled, last_order,
                   realized, sizing, last_monitor, stats_calls, rtd_call>>

InitChannel ==
    /\ now = 0
    /\ last_signal_time = << >>
    /\ emitted = << >>
    /\ eval = NoEval
    /\ analysis = MainLoop
    /\ NoCharts
    /\ analyzer_config = DefaultAnalyzerConfig
    /\ module_call = NoModuleCall
    /\ NoQualityIssues
    /\ ReaderConstructed
    /\ NoChannel
    /\ ExecutorConstructed
    /\ sizing = NoSizing

NextChannel ==
    \/ Start
    \/ \E signal \in Signals, read_ok \in BOOLEAN : BeginSend(signal, read_ok)
    \/ OpenForWrite
    \/ DumpSignals
    \/ FsClockTick
    \/ CheckMtime
    \/ ReadSignalFile

SpecChannel == InitChannel /\ [][NextChannel]_vars

(***************************************************************************)
(* The threads of one executor process: each loop tests the stop flag at   *)
(* its top, the order worker between the submission of an order and its    *)
(* recording, and stop(), which sets the flag, joins each thread for at    *)
(* most five seconds and then closes the connections.  The clock stays     *)
(* inside the session, before the closing window.                          *)
(***************************************************************************)
MaxErrors == 1

\* a queue read that waits until an item comes
BlockingGet(queue) == queue # << >>

\* self.order_queue.get(timeout=1.0): with or without an item the call
\* returns (queue.Empty after one second)
BoundedGet(queue) == TRUE

\* an exception that ends the loop
AfterErrorExit(t) == "exited"

\* except Exception in the while loop: the error is logged, the thread
\* sleeps and goes back to the test of the stop flag
AfterError(t) == "loop"

\* logger.error(...) of a loop's handler: the loop, and how many orders the
\* worker had handled by then
Caught(t) == [thread |-> t, at |-> Len(handled)]

OtherExecutorVars ==
    <<running, last_signal_file_mtime, processed_signal_timestamps, order_queue,
      daily_stats, account_info>>

\* while not self.stop_event.is_set(), at the top of an iteration: the flag
\* is set and the thread ends, or the order worker goes to the queue.  (The
\* iterations of the other two loops are the actions below.)
LoopTest(t) ==
    /\ threads[t] = "loop"
    /\ stop_event \/ t = "order"
    /\ threads' = [threads EXCEPT ![t] = IF stop_event THEN "exited" ELSE "get"]
    /\ UNCHANGED <<stop_event, connections, stopper, in_flight, errors>>
    /\ UNCHANGED <<now, analyzer_vars, channel_vars, OtherExecutorVars, store_vars,
                   mt5, history_vars>>

\* order_processor_thread: the queue is empty, get raises queue.Empty
OrderGetTimeout ==
    /\ threads.order = "get"
    /\ order_queue = << >>
    /\ BoundedGet(order_queue)
    /\ threads' = [threads EXCEPT !.order = "loop"]
    /\ UNCHANGED <<stop_event, connections, stopper, in_flight, errors>>
    /\ UNCHANGED <<now, analyzer_vars, channel_vars, OtherExecutorVars, store_vars,
                   mt5, history_vars>>

\* order_processor_thread: an order is taken, goes through the gates and the
\* lot check and, if it passes, to send_market_order.  After mt5.shutdown()
\* the terminal answers nothing.
OrderSubmit(positions_ok, symbol_info, tick, send_ok) ==
    /\ threads.order = "get"
    /\ order_queue # << >>
    /\ BoundedGet(order_queue)
    /\ \E got \in {QueueGet(order_queue)} :
       \E order \in {got.item}, up \in {connections.mt5} :
       \E h \in {HandleOrder(order, up /\ positions_ok,
                              IF up THEN symbol_info ELSE None,
                              IF up THEN tick ELSE None, up /\ send_ok)} :
       \E seen \in {OrderSeen(order, h, FALSE, FALSE)} :
           /\ order_queue' = got.rest
           /\ mt5' = h.terminal
           /\ IF h.sent
              THEN /\ in_flight' = Some([row |-> h.row, seen |-> seen,
                                         mtime |-> last_signal_file_mtime])
                   /\ threads' = [threads EXCEPT !.order = "record"]
                   /\ UNCHANGED <<handled, last_order>>
              ELSE /\ handled' = Append(handled,
                                        [run |-> run, timestamp |-> seen.timestamp,
                                         mtime |-> last_signal_file_mtime,
                                         sent |-> FALSE, accepted |-> FALSE])
                   /\ last_order' = seen
                   /\ threads' = [threads EXCEPT !.order = "loop"]
                   /\ UNCHANGED in_flight
    /\ UNCHANGED <<stop_event, connections, stopper, errors>>
    /\ UNCHANGED <<now, analyzer_vars, channel_vars, running, last_signal_file_mtime,
                   processed_signal_timestamps, daily_stats, account_info,
                   store_vars, run, enqueued, realized, sizing, last_monitor, stats_calls,
                   rtd_call>>

\* order_processor_thread: the INSERT of the order sent, and task_done.  On a
\* closed connection the INSERT raises, as it does when the database fails.
OrderRecord(db_ok) ==
    /\ threads.order = "record"
    /\ LET row    == in_flight[1].row
           seen   == in_flight[1].seen
           taken  == db_ok /\ connections.db
       IN  /\ orders_table' = InsertOrder(orders_table, row, taken)
           /\ handled' = Append(handled,
                                [run |-> seen.run, timestamp |-> seen.timestamp,
                                 mtime |-> in_flight[1].mtime,
                                 sent |-> TRUE, accepted |-> seen.accepted])
           /\ last_order' = [seen EXCEPT !.recorded = taken, !.stored = db_ok]
    /\ in_flight' = None
    /\ threads' = [threads EXCEPT !.order = "loop"]
    /\ UNCHANGED <<stop_event, connections, stopper, errors>>
    /\ UNCHANGED <<now, analyzer_vars, channel_vars, OtherExecutorVars, stats_table,
                   ingest_vars,
                   mt5, run, enqueued, realized, sizing, last_monitor, stats_calls,
                   rtd_call>>

\* order_processor_thread: the handling of an order raises before the
\* submission; the order is gone from the queue.
OrderError ==
    /\ threads.order = "get"
    /\ order_queue # << >>
    /\ Len(errors) < MaxErrors
    /\ errors' = Append(errors, Caught("order"))
    /\ LET got == QueueGet(order_queue)
       IN  /\ order_queue' = got.rest
           /\ handled' = Append(handled,
                                [run |-> run,
                                 timestamp |-> got.item.signal_details.timestamp,
                                 mtime |-> last_signal_file_mtime,
                                 sent |-> FALSE, accepted |-> FALSE])
    /\ threads' = [threads EXCEPT !.order = AfterError("order")]
    /\ UNCHANGED <<stop_event, connections, stopper, in_flight>>
    /\ UNCHANGED <<now, analyzer_vars, channel_vars, running, last_signal_file_mtime,
                   processed_signal_timestamps, daily_stats, account_info,
                   store_vars, mt5, run, enqueued, last_order, realized, sizing,
                   last_monitor, stats_calls, rtd_call>>

\* signal_processor_thread: one iteration, the flag is not set
SignalIteration ==
    /\ threads.signal = "loop"
    /\ ~stop_event
    /\ UNCHANGED threads
    /\ IF file_mtime # 0 /\ file_mtime > last_signal_file_mtime
       THEN /\ last_signal_file_mtime' = file_mtime
            /\ LET out == ProcessSignals(LoadSignals(signal_file, file_valid),
                                         processed_signal_timestamps, << >>)
               IN  /\ processed_signal_timestamps' = out.processed
                   /\ order_queue' = order_queue \o out.queue
                   /\ enqueued' = enqueued \o
                        [i \in 1..Len(out.queue) |->
                           <<run, out.queue[i].signal_details.timestamp>>]
       ELSE UNCHANGED <<last_signal_file_mtime, processed_signal_timestamps,
                        order_queue, enqueued>>
    /\ UNCHANGED <<stop_event, connections, stopper, in_flight, errors>>
    /\ UNCHANGED <<now, analyzer_vars, channel_vars, running, daily_stats,
                   account_info, store_vars, mt5, run, handled, last_order,
                   realized, sizing, last_monitor, stats_calls, rtd_call>>

\* signal_processor_thread: the iteration raises (the file cannot be opened)
SignalError ==
    /\ threads.signal = "loop"
    /\ ~stop_event
    /\ file_mtime # 0 /\ file_mtime > last_signal_file_mtime
    /\ Len(errors) < MaxErrors
    /\ errors' = Append(errors, Caught("signal"))
    /\ last_signal_file_mtime' = file_mtime
    /\ threads' = [threads EXCEPT !.signal = AfterError("signal")]
    /\ UNCHANGED <<stop_event, connections, stopper, in_flight>>
    /\ UNCHANGED <<now, analyzer_vars, channel_vars, running,
                   processed_signal_timestamps, order_queue, daily_stats,
                   account_info, store_vars, mt5, history_vars>>

\* position_monitor_thread: one iteration before the closing window (the
\* open positions are logged), and the sleep
MonitorIteration ==
    /\ threads.monitor = "loop"
    /\ ~stop_event
    /\ ~InClosingWindow(ExecutorConfig.trading, now)
    /\ UNCHANGED threads
    /\ UNCHANGED <<stop_event, connections, stopper, in_flight, errors>>
    /\ UNCHANGED <<now, analyzer_vars, channel_vars, OtherExecutorVars, store_vars,
                   mt5, history_vars>>

\* position_monitor_thread: the iteration raises
MonitorError ==
    /\ threads.monitor = "loop"
    /\ ~stop_event
    /\ Len(errors) < MaxErrors
    /\ errors' = Append(errors, Caught("monitor"))
    /\ threads' = [threads EXCEPT !.monitor = AfterError("monitor")]
    /\ UNCHANGED <<stop_event, connections, stopper, in_flight>>
    /\ UNCHANGED <<now, analyzer_vars, channel_vars, OtherExecutorVars, store_vars,
                   mt5, history_vars>>

\* stop(): self.stop_event.set()
StopSignal ==
    /\ running
    /\ stopper = "idle"
    /\ running' = FALSE
    /\ stop_event' = TRUE
    /\ stopper' = "join"
    /\ UNCHANGED <<threads, connections, in_flight, errors>>
    /\ UNCHANGED <<now, analyzer_vars, channel_vars, last_signal_file_mtime,
                   processed_signal_timestamps, order_queue, daily_stats,
                   account_info, store_vars, mt5, history_vars>>

\* stop(): each thread.join(timeout=5.0) has returned, the thread ended or
\* not; self.db_conn.close() and disconnect_mt5()
StopClose ==
    /\ stopper = "join"
    /\ stopper' = "done"
    /\ connections' = [db |-> FALSE, mt5 |-> FALSE]
    /\ UNCHANGED <<stop_event, threads, in_flight, errors>>
    /\ UNCHANGED <<now, analyzer_vars, channel_vars, OtherExecutorVars, store_vars,
                   mt5, history_vars>>

\* run_main_loop: an iteration in which no analysis yields a decision, and
\* the sleep
AnalysisIteration ==
    /\ analysis.pc = "loop"
    /\ ~analysis.stop_event
    /\ UNCHANGED analysis
    /\ UNCHANGED <<now, last_signal_time, emitted, eval, quality_vars, module_call,
                   handoff_vars, channel_vars, executor_vars,
                   store_vars, mt5, history_vars>>

\* run_main_loop: the iteration raises
AnalysisError ==
    /\ analysis.pc = "loop"
    /\ ~analysis.stop_event
    /\ Len(errors) < MaxErrors
    /\ errors' = Append(errors, Caught("analysis"))
    /\ analysis' = [analysis EXCEPT !.pc = AfterError("analysis")]
    /\ UNCHANGED <<stop_event, threads, connections, stopper, in_flight>>
    /\ UNCHANGED <<now, last_signal_time, emitted, eval, quality_vars, module_call,
                   handoff_vars, channel_vars,
                   OtherExecutorVars, store_vars, mt5, history_vars>>

\* run_main_loop: KeyboardInterrupt leaves the loop, finally: self.stop()
AnalysisInterrupt ==
    /\ analysis.pc # "exited"
    /\ analysis' = [pc |-> "exited", stop_event |-> TRUE]
    /\ UNCHANGED <<now, last_signal_time, emitted, eval, quality_vars, module_call,
                   handoff_vars, channel_vars, executor_vars,
                   store_vars, mt5, history_vars>>

AnalysisLoop ==
    \/ AnalysisIteration
    \/ AnalysisError
    \/ AnalysisInterrupt

OrderThread ==
    \/ LoopTest("order")
    \/ OrderGetTimeout
    \/ \E positions_ok \in BOOLEAN, symbol_info \in {None, Some(SymbolInfo)},
          tick \in {None} \cup { Some(tk) : tk \in Ticks }, send_ok \in BOOLEAN :
         OrderSubmit(positions_ok, symbol_info, tick, send_ok)
    \/ \E db_ok \in BOOLEAN : OrderRecord(db_ok)
    \/ OrderError

SignalThread ==
    \/ LoopTest("signal")
    \/ SignalIteration
    \/ SignalError

MonitorThread ==
    \/ LoopTest("monitor")
    \/ MonitorIteration
    \/ MonitorError

InitThreads ==
    /\ now = 1
    /\ last_signal_time = << >>
    /\ emitted = << >>
    /\ eval = NoEval
    /\ analysis = MainLoop
    /\ NoCharts
    /\ analyzer_config = DefaultAnalyzerConfig
    /\ module_call = NoModuleCall
    /\ NoQualityIssues
    /\ ReaderConstructed
    /\ signal_file = [i \in 1..MaxSignals |->
                        TradingSignal(i, IF i % 2 = 1 THEN "Compra" ELSE "Venda")]
    /\ file_mtime = 1
    /\ ChannelIdle
    /\ ExecutorConstructed
    /\ sizing = NoSizing

\* main(): one process calls start() once
StartOnce == run = 0 /\ Start

NextThreads ==
    \/ StartOnce
    \/ OrderThread
    \/ SignalThread
    \/ MonitorThread
    \/ AnalysisLoop
    \/ StopSignal
    \/ StopClose

\* Each thread that can take a step takes one in the end.
SpecThreads ==
    /\ InitThreads /\ [][NextThreads]_vars
    /\ WF_vars(OrderThread) /\ WF_vars(SignalThread) /\ WF_vars(MonitorThread)

\* A position of the same account that this executor did not open: its
\* magic number is not the executor's.
ForeignPosition ==
    [ticket |-> 1, symbol |-> "winfut", type |-> "BUY", volume |-> 100, magic |-> 0]

\* One executor process in the session and at its end, with the decisions
\* already in the signal file, on an account that may hold a position of
\* another origin.
InitMonitor ==
    /\ now = 1
    /\ last_signal_time = << >>
    /\ emitted = << >>
    /\ eval = NoEval
    /\ analysis = MainLoop
    /\ NoCharts
    /\ analyzer_config = DefaultAnalyzerConfig
    /\ module_call = NoModuleCall
    /\ NoQualityIssues
    /\ ReaderConstructed
    /\ signal_file = [i \in 1..MaxSignals |->
                        TradingSignal(i, IF i % 2 = 1 THEN "Compra" ELSE "Venda")]
    /\ file_mtime = 1
    /\ ChannelIdle
    /\ running = FALSE
    /\ last_signal_file_mtime = 0
    /\ processed_signal_timestamps = {}
    /\ order_queue = << >>
    /\ daily_stats = [trades |-> 0, pnl |-> 0, wins |-> 0, losses |-> 0]
    /\ account_info = None
    /\ ThreadsNotStarted
    /\ stats_table = << >>
    /\ orders_table = << >>
    /\ \E b \in AccountBalances :
         mt5 \in { [positions |-> {}, balance |-> b, next_ticket |-> 1],
                   [positions |-> {ForeignPosition}, balance |-> b, next_ticket |-> 2] }
    /\ run = 0
    /\ enqueued = << >>
    /\ handled = << >>
    /\ last_order = NoOrder
    /\ realized = [d \in Dates |-> 0]
    /\ stats_calls = NoStatsCalls
    /\ rtd_call = NoRtdCall
    /\ last_monitor = NoMonitor
    /\ sizing = NoSizing

NextMonitor ==
    \/ Start
    \/ PollSignals
    \/ OrderProcessor
    \/ PositionMonitor
    \/ ClockTick

SpecMonitor == InitMonitor /\ [][NextMonitor]_vars

(***************************************************************************)
(* calculate_lot_size as a function of its inputs                          *)
(***************************************************************************)
LotPcts == {1, 2}

LotBalances == {50000, 100000}

LotSymbols ==
    { None, Some(SymbolInfo),
      Some([SymbolInfo EXCEPT !.trade_tick_value = 0]),
      Some([SymbolInfo EXCEPT !.trade_tick_value = 10, !.point = 5]),
      Some([SymbolInfo EXCEPT !.volume_step = 0, !.volume_min = 1]),
      \* limits that are no multiples of the step: 2.5 lots, 1.5 lots
      Some([SymbolInfo EXCEPT !.volume_min = 250]),
      Some([SymbolInfo EXCEPT !.volume_max = 150]) }

LotTicks == {None} \cup { Some(tk) : tk \in Ticks }

LotStops == {9755, 9950, 10100, 10255}

InitLot ==
    /\ now = 0
    /\ last_signal_time = << >>
    /\ emitted = << >>
    /\ eval = NoEval
    /\ analysis = MainLoop
    /\ NoCharts
    /\ analyzer_config = DefaultAnalyzerConfig
    /\ module_call = NoModuleCall
    /\ NoQualityIssues
    /\ ReaderConstructed
    /\ NoChannel
    /\ ExecutorConstructed
    /\ \E pct \in LotPcts, balance \in LotBalances, symbol_info \in LotSymbols,
          tick \in LotTicks, stop_loss \in LotStops :
         sizing = [trading |-> [ExecutorConfig.trading EXCEPT !.risk_per_trade_pct = pct],
                   account |-> [balance |-> balance], symbol_info |-> symbol_info,
                   tick |-> tick, stop_loss |-> stop_loss, result |-> NoLot,
                   submitted |-> FALSE, done |-> FALSE]

\* calculate_lot_size and the worker's check of the lot: the order goes on
\* to send_market_order with this volume unless the lot is rejected.
SizeLot ==
    /\ ~sizing.done
    /\ LET size == CalculateLotSize(sizing.trading, sizing.account,
                                    sizing.symbol_info, sizing.tick, sizing.stop_loss)
       IN  sizing' = [sizing EXCEPT !.result = size,
                                    !.submitted = ~LotRejected(size.lot),
                                    !.done = TRUE]
    /\ UNCHANGED <<now, analyzer_vars, channel_vars, executor_vars, store_vars, mt5,
                   run, enqueued, handled, last_order, realized, last_monitor, stats_calls,
                   rtd_call>>

NextLot == SizeLot

SpecLot == InitLot /\ [][NextLot]_vars

(***************************************************************************)
(* The daily statistics over update_daily_stats calls, days and restarts    *)
(***************************************************************************)
\* update_daily_stats is called at most MaxUpdates times.
MaxUpdates == 3

InitStats ==
    /\ now = 0
    /\ last_signal_time = << >>
    /\ emitted = << >>
    /\ eval = NoEval
    /\ analysis = MainLoop
    /\ NoCharts
    /\ analyzer_config = DefaultAnalyzerConfig
    /\ module_call = NoModuleCall
    /\ NoQualityIssues
    /\ ReaderConstructed
    /\ NoChannel
    /\ ExecutorConstructed
    /\ sizing = NoSizing

\* update_daily_stats(profit), at most MaxUpdates times in all
CountTrade(profit, db_ok) ==
    /\ stats_calls.n < MaxUpdates
    /\ RecordTrade(profit, db_ok)

\* A position was closed with this profit, the database up or down.
TradeClosed ==
    \E profit \in Profits, db_ok \in BOOLEAN : CountTrade(profit, db_ok)

NextStats ==
    \/ Start
    \/ Stop
    \/ TradeClosed
    \/ ClockTick

SpecStats == InitStats /\ [][NextStats]_vars

(***************************************************************************)
(* RTD reader: read_rtd_data over the configured cells                      *)
(***************************************************************************)
\* config["cell_ranges"][asset] in its order, cut to two of the ten cells
RtdCells == <<"hora", "ultimo">>

\* A cell is skipped after more than 3 errors ...
SkipAfterErrors == 3

\* ... the last of them less than 300 seconds ago: two ticks of the clock.
CellErrorWindow == 2

\* read_rtd_data is called at most MaxReads times.
MaxReads == 5

\* cell_error_key = f"{asset}_{name}"
CellErrorKey(asset, name) == <<asset, name>>

\* The loop of read_rtd_data from the i-th cell on, at the time t; failed are
\* the cells whose _safe_read_cell returns an error.  st holds cell_errors
\* (key -> <<last_error_time, count>>), data, the local error_count and the
\* cells read.  The unpacking of the error record of a cell assigns the local
\* error_count.
RECURSIVE ReadCells(_, _, _, _, _)
ReadCells(asset, i, failed, t, st) ==
    IF i > Len(RtdCells) THEN st
    ELSE LET name  == RtdCells[i]
             key   == CellErrorKey(asset, name)
             known == key \in DOMAIN st.cell_errors
             error_count == IF known THEN st.cell_errors[key][2] ELSE st.error_count
             skip  == /\ known
                      /\ t - st.cell_errors[key][1] < CellErrorWindow
                      /\ error_count > SkipAfterErrors
             put(d, k, v) == [x \in DOMAIN d \cup {k} |-> IF x = k THEN v ELSE d[x]]
         IN  IF skip
             THEN ReadCells(asset, i + 1, failed, t, [st EXCEPT !.error_count = error_count])
             ELSE IF name \in failed
             THEN ReadCells(asset, i + 1, failed, t,
                    [cell_errors |-> put(st.cell_errors, key,
                                         <<t, IF known THEN st.cell_errors[key][2] + 1
                                              ELSE 1>>),
                     data        |-> put(st.data, name, None),
                     error_count |-> error_count + 1,
                     read        |-> st.read \cup {name}])
             ELSE ReadCells(asset, i + 1, failed, t,
                    [cell_errors |-> [x \in DOMAIN st.cell_errors \ {key} |->
                                        st.cell_errors[x]],
                     data        |-> put(st.data, name, Some("1")),
                     error_count |-> error_count,
                     read        |-> st.read \cup {name}])

\* read_rtd_data(asset) for a configured asset: data is None for (None, None),
\* returned when error_count == len(cell_ranges).
ReadRtdCells(asset, failed, t, cell_errors) ==
    LET st == ReadCells(asset, 1, failed, t,
                        [cell_errors |-> cell_errors, data |-> << >>,
                         error_count |-> 0, read |-> {}])
    IN  [data        |-> IF st.error_count = Len(RtdCells) THEN None ELSE Some(st.data),
         cell_errors |-> st.cell_errors,
         read        |-> st.read]

\* One call of read_rtd_data
ReadCall(asset, failed) ==
    /\ rtd_call.n < MaxReads
    /\ \E out \in {ReadRtdCells(asset, failed, now, rtd.cell_errors)} :
         /\ rtd' = [rtd EXCEPT !.cell_errors = out.cell_errors]
         /\ rtd_call' = [n |-> rtd_call.n + 1, asset |-> asset, failed |-> failed,
                         read |-> out.read, data |-> out.data,
                         history |-> rtd.cell_errors]
    /\ UNCHANGED <<now, analyzer_vars, channel_vars, executor_vars, stats_table,
                   orders_table, market_table, ingested, mt5, run, enqueued, handled,
                   last_order, realized, sizing, last_monitor, stats_calls>>

ReadCalls ==
    \E asset \in Assets, failed \in SUBSET { RtdCells[i] : i \in 1..Len(RtdCells) } :
      ReadCall(asset, failed)

InitReader ==
    /\ now = 0
    /\ last_signal_time = << >>
    /\ emitted = << >>
    /\ eval = NoEval
    /\ analysis = MainLoop
    /\ NoCharts
    /\ analyzer_config = DefaultAnalyzerConfig
    /\ module_call = NoModuleCall
    /\ NoQualityIssues
    /\ ReaderConstructed
    /\ NoChannel
    /\ ExecutorConstructed
    /\ sizing = NoSizing

NextReader ==
    \/ ReadCalls
    \/ ClockTick

SpecReader == InitReader /\ [][NextReader]_vars

(***************************************************************************)
(* Claims on the Decision Engine                                           *)
(***************************************************************************)
Keys == { SignalKey(a, p) : a \in Assets, p \in Profiles }

\* C1: any two decisions generate_trading_signal returned for the same
\* (instrument, profile) pair are at least that profile's signal_interval apart.
C1_RateLimit ==
    \A key \in DOMAIN emitted :
      \A i, j \in 1..Len(emitted[key]) :
        i < j => emitted[key][j] - emitted[key][i]
                   >= GetProfileConfig(key[2]).analysis.signal_interval

\* A pair with a second decision, returned once the interval had passed.
C1_Witness == \E key \in DOMAIN emitted : Len(emitted[key]) >= 2

Emitted == eval.done /\ eval.signal # None

Decision == eval.signal[1]

ProfileSignals == GetProfileConfig(eval.profile).signals

\* C4: every decision returned has risk_reward_ratio = |target - entry| /
\* |entry - stop|, with a stop distance above 0, and the ratio is at least the
\* profile's risk_reward_min; so an evaluation with a lower ratio returns nothing.
C4_RiskReward ==
    Emitted =>
      LET risk   == Abs(Decision.entry_price - Decision.stop_loss)
          reward == Abs(Decision.take_profit - Decision.entry_price)
          rr     == Decision.risk_reward_ratio
      IN  /\ risk > 0
          /\ rr.den > 0
          /\ rr.num * risk = reward * rr.den
          /\ 10 * reward >= ProfileSignals.risk_reward_min * risk

\* A decision whose levels are the phase analysis's support and resistance.
C4_Witness ==
    /\ Emitted
    /\ Truthy(DictGet(eval.results.wyckoff, "support_level", None))
    /\ Decision.stop_loss \in { eval.results.wyckoff.support_level[1],
                                eval.results.wyckoff.resistance_level[1] }

\* C5: every decision returned has a confidence in [0, 1] that is at least the
\* profile's min_confidence; an evaluation with a lower confidence returns nothing.
C5_Confidence ==
    Emitted => /\ 0 <= Decision.confidence
               /\ Decision.confidence <= 1000
               /\ Decision.confidence >= ProfileSignals.min_confidence

\* A decision of the profile with the highest minimum.
C5_Witness == Emitted /\ eval.profile = "conservador"

Modules == {"wyckoff", "order_flow", "momentum"}

\* The modules with at least one microsignal of the given type.
Contributing(results, type) ==
    { m \in Modules :
        LET sigs == DictGet(results[m], "signals", << >>)
        IN  \E i \in 1..Len(sigs) : sigs[i].type = type }

\* C6: with confirmation_required, every decision returned has at least 2 of
\* the 3 modules each contributing a microsignal in the decision's direction.
C6_Confirmation ==
    (Emitted /\ ProfileSignals.confirmation_required)
        => Cardinality(Contributing(eval.results, Decision.type)) >= 2

\* A confirmed decision with exactly two modules behind it, the third against.
C6_Witness ==
    /\ Emitted
    /\ ProfileSignals.confirmation_required
    /\ Cardinality(Contributing(eval.results, Decision.type)) = 2
    /\ \E m \in Modules : DictGet(eval.results[m], "signals", << >>) # << >>
                          /\ m \notin Contributing(eval.results, Decision.type)

(***************************************************************************)
(* Claims on the executor                                                  *)
(***************************************************************************)
Timestamps == 1..MaxSignals

\* How often run r put timestamp ts on the queue, sent an order for it,
\* wrote a row for it.
EnqueuedIn(r, ts) == Cardinality({ i \in DOMAIN enqueued : enqueued[i] = <<r, ts>> })

SentIn(r, ts) ==
    Cardinality({ i \in DOMAIN handled :
                    handled[i].run = r /\ handled[i].timestamp = ts /\ handled[i].sent })

RowsIn(r, ts) ==
    Cardinality({ i \in DOMAIN orders_table :
                    orders_table[i].run = r /\ orders_table[i].signal_timestamp = ts })

HandledIn(r, ts) ==
    Cardinality({ i \in DOMAIN handled :
                    handled[i].run = r /\ handled[i].timestamp = ts })

\* C2: within one run of the executor, a signal timestamp is put on the order
\* queue at most once, however often the file is re-read and however often
\* the timestamp appears in it, and so it has at most one broker submission
\* and at most one row of executed_orders.
C2_AtMostOnce ==
    \A r \in 1..run, ts \in Timestamps :
        /\ EnqueuedIn(r, ts) <= 1
        /\ SentIn(r, ts) <= 1
        /\ RowsIn(r, ts) <= 1

\* A timestamp whose order was sent and recorded in this run, and which a
\* later write put in the file a second time, the file being read again since.
C2_Witness ==
    /\ running
    /\ last_signal_file_mtime = file_mtime
    /\ \E h \in 1..Len(handled), j \in 1..Len(signal_file) :
          /\ handled[h].run = run
          /\ handled[h].sent
          /\ handled[h].mtime < j
          /\ signal_file[j].timestamp = handled[h].timestamp
          /\ RowsIn(run, handled[h].timestamp) = 1

\* C3: a decision of the signal file that an earlier executor process turned
\* into an order attempt is not put on the queue again by a later process.
C3_DurableLedger ==
    \A ts \in Timestamps, r1, r2 \in 1..run :
        (r1 < r2 /\ SentIn(r1, ts) > 0) => EnqueuedIn(r2, ts) = 0

\* The trading-hours window and the daily-loss limit of the default configuration.
OutsideTradingHours(t) == TimeOfDay(t) < TradingStart \/ TimeOfDay(t) > TradingEnd

BelowDailyLossLimit(pnl, balance) ==
    100 * pnl < -(ExecutorConfig.trading.max_daily_loss_pct * (balance - pnl))

Handled == last_order.outcome # "none"

C8_CircuitBreaker ==
    (Handled /\ BelowDailyLossLimit(last_order.realized, last_order.account_balance))
      => last_order.outcome = "not_allowed"

\* C9: the positions of this executor open at the terminal never number more
\* than max_open_trades.
C9_ExposureGate ==
    Cardinality(PositionsGet(mt5, ExecutorConfig.trading.magic_number))
        <= ExecutorConfig.trading.max_open_trades

\* C10: before the clamping the lot is (risk_per_trade_pct / 100 x balance) /
\* risk_per_contract whenever risk_per_contract > 0; with a balance of 100000,
\* 1 per cent and a risk per contract of 50 it is 20.
C10_LotFormula ==
    (sizing.done /\ sizing.result.risk_per_contract # None)
      => LET pct     == sizing.trading.risk_per_trade_pct
             balance == sizing.account.balance
             rpc     == sizing.result.risk_per_contract[1]
         IN  /\ rpc.num > 0 /\ rpc.den > 0
             /\ sizing.result.lot_size # None
             /\ LET lot == sizing.result.lot_size[1]
                IN  /\ lot.den > 0
                    /\ lot.num * 100 * rpc.num = pct * balance * rpc.den * lot.den
                    /\ (balance = 100000 /\ pct = 1 /\ rpc.num = 50 * rpc.den)
                          => lot.num = 20 * lot.den

\* The sizing of the example: 100000, 1 per cent, 50 per contract.
C10_Witness ==
    /\ sizing.done
    /\ sizing.account.balance = 100000
    /\ sizing.trading.risk_per_trade_pct = 1
    /\ sizing.result.risk_per_contract = Some([num |-> 50, den |-> 1])
    /\ sizing.result.lot_size = Some([num |-> 20, den |-> 1])

\* An instrument whose volume limits are whole multiples of its step.
VolumeLimitsOnStep(si) ==
    /\ si.volume_step > 0
    /\ si.volume_min % si.volume_step = 0
    /\ si.volume_max % si.volume_step = 0
    /\ si.volume_min <= si.volume_max

\* no symbol information, no tick, or a lot that is not above 0
NoVolume ==
    \/ sizing.symbol_info = None
    \/ sizing.tick = None
    \/ sizing.result.lot <= 0

\* C11 as stated: every volume handed to send_market_order is above 0, within
\* [volume_min, volume_max] and a whole multiple of volume_step; without
\* symbol information or tick, or with a lot <= 0, nothing is submitted.
C11_VolumeAsClaimed ==
    sizing.done =>
      /\ NoVolume => ~sizing.submitted
      /\ sizing.submitted =>
            LET si == sizing.symbol_info[1]
                v  == sizing.result.lot
            IN  /\ v > 0
                /\ si.volume_min <= v /\ v <= si.volume_max
                /\ si.volume_step # 0 => v % si.volume_step = 0

\* C11, amended: the same for an instrument whose volume_min and volume_max
\* are whole multiples of a positive volume_step (with volume_min <=
\* volume_max); for any instrument the volume submitted is above 0.
C11_VolumeValid ==
    sizing.done =>
      /\ NoVolume => ~sizing.submitted
      /\ sizing.submitted =>
            LET si == sizing.symbol_info[1]
                v  == sizing.result.lot
            IN  /\ v > 0
                /\ VolumeLimitsOnStep(si) =>
                      /\ si.volume_min <= v /\ v <= si.volume_max
                      /\ v % si.volume_step = 0

\* A lot that was not a whole number of steps before the rounding, submitted.
C11_Witness ==
    /\ sizing.done
    /\ sizing.submitted
    /\ VolumeLimitsOnStep(sizing.symbol_info[1])
    /\ sizing.result.lot_size[1].den # 1
    /\ sizing.result.lot > sizing.symbol_info[1].volume_min
    /\ sizing.result.lot < sizing.symbol_info[1].volume_max

\* The rows of the orders table: every row is OPEN with a ticket the terminal
\* issued or FAILED with no ticket, and the row of the last recorded order is
\* OPEN exactly when the terminal accepted that order.
C12_Recorded ==
    /\ \A i \in 1..Len(orders_table) :
          LET row == orders_table[i]
          IN  /\ row.status \in {"OPEN", "FAILED"}
              /\ row.status = "OPEN" <=> row.mt5_ticket # None
              /\ row.mt5_ticket # None =>
                    row.mt5_ticket[1] \in 1..(mt5.next_ticket - 1)
    /\ last_order.recorded =>
          LET row == orders_table[Len(orders_table)]
          IN  /\ row.signal_timestamp = last_order.timestamp
              /\ row.mt5_ticket = last_order.ticket
              /\ row.status = "OPEN" <=> last_order.accepted
              /\ row.status = "FAILED" <=> ~last_order.accepted

\* No step changes or removes a row of the orders table.
C12_RowsKept ==
    /\ Len(orders_table') >= Len(orders_table)
    /\ \A i \in 1..Len(orders_table) : orders_table'[i] = orders_table[i]

\* C12: for every decision that reaches send_market_order the recorded order
\* is OPEN with the terminal's ticket exactly when the terminal accepted it and
\* FAILED with no ticket otherwise, and no later step changes a recorded row
\* (FAILED is terminal).
C12_OrderStatus == [](C12_Recorded) /\ [][C12_RowsKept]_vars

\* A FAILED row with a later OPEN row after it, the last order recorded.
C12_Witness ==
    /\ last_order.recorded
    /\ last_order.accepted
    /\ \E i, j \in 1..Len(orders_table) :
          /\ i < j
          /\ orders_table[i].status = "FAILED"
          /\ orders_table[j].status = "OPEN"

\* C13: a decision the worker dropped (trading not allowed, maximum of open
\* positions, invalid lot) or whose order the terminal did not accept is not
\* handled by the worker a second time.
C13_NeverRetried ==
    \A i, j \in 1..Len(handled) :
        (i < j /\ ~handled[i].accepted) =>
            handled[j].timestamp # handled[i].timestamp

\* C14 as stated: every order that passed the gates and the lot check
\* (it reached send_market_order) has its row in the orders table, whether
\* the terminal accepted it or not.
C14_RowPerOrder ==
    \A r \in 1..run, ts \in Timestamps : RowsIn(r, ts) = SentIn(r, ts)

\* C14, amended: an order that reached send_market_order has at most one row,
\* exactly one when the database took the insert, and no row is written for a
\* decision that did not reach send_market_order.
C14_RowWhenStored ==
    /\ \A r \in 1..run, ts \in Timestamps : RowsIn(r, ts) <= SentIn(r, ts)
    /\ (last_order.sent /\ last_order.stored) =>
          /\ orders_table # << >>
          /\ orders_table[Len(orders_table)].signal_timestamp = last_order.timestamp
          /\ orders_table[Len(orders_table)].run = last_order.run
          /\ RowsIn(last_order.run, last_order.timestamp) = 1
    /\ (last_order.sent /\ ~last_order.stored) =>
          RowsIn(last_order.run, last_order.timestamp) = 0

\* A refused order that the database recorded.
C14_Witness ==
    /\ last_order.sent
    /\ ~last_order.accepted
    /\ last_order.stored
    /\ orders_table # << >>
    /\ orders_table[Len(orders_table)].status = "FAILED"

\* C15: when a position is closed, its order row moves from OPEN to CLOSED
\* (with the profit) and the daily statistics count the trade: after a
\* monitor iteration closed positions, the rows of their tickets are CLOSED
\* and daily_stats has counted at least those trades.
C15_ClosedRecorded ==
    /\ \A i \in 1..Len(orders_table) :
          (/\ orders_table[i].mt5_ticket # None
           /\ orders_table[i].mt5_ticket[1] \in last_monitor.closed)
             => orders_table[i].status = "CLOSED"
    /\ last_monitor.closed # {} => daily_stats.trades >= Cardinality(last_monitor.closed)

\* What the claim says of a monitor iteration in the closing window.
MonitorClosesOwn ==
    /\ last_monitor.requested \cap last_monitor.foreign = {}
    /\ last_monitor.requested = last_monitor.own

C16_StatsOfToday ==
    (Handled /\ ~OutsideTradingHours(last_order.time)) =>
        last_order.stats_date = Date(last_order.time)

\* C18: send_signal_to_executor only appends: the decisions that were in the
\* file before the call are in it after the call, in the same order, and the
\* new decision follows them.
C18_AppendOnly ==
    [][signal_file' # signal_file =>
         /\ Len(signal_file') = Len(signal_file) + 1
         /\ \A i \in 1..Len(signal_file) : signal_file'[i] = signal_file[i]]_vars

\* The poller has nothing to do: no call of the analyzer is in progress, the
\* poller is between two iterations and the file's mtime is not later than
\* the one it recorded.
ChannelQuiet ==
    /\ running
    /\ writer.pc = "idle"
    /\ poller = "idle"
    /\ file_mtime # 0
    /\ file_mtime <= last_signal_file_mtime

\* C19: every decision of the file reaches the order queue: once the poller
\* has nothing left to do (and stays so while no further write comes), each
\* decision in the file has been put on the queue by this process.
C19_AtLeastOnce ==
    ChannelQuiet =>
        \A j \in 1..Len(signal_file) :
            EnqueuedIn(run, signal_file[j].timestamp) >= 1

\* C20: the identity of a decision (its timestamp, the key of the executor's
\* dedup) is unique: no two decisions returned, of the same pair or of two
\* pairs, carry the same timestamp.
C20_UniqueIdentity ==
    \A k1, k2 \in DOMAIN emitted :
      \A i \in 1..Len(emitted[k1]), j \in 1..Len(emitted[k2]) :
        (k1 # k2 \/ i # j) => emitted[k1][i] # emitted[k2][j]

\* The timestamps put on the queue, and those the worker handled, in run r.
EnqueuedSeq(r) ==
    LET own == SelectSeq(enqueued, LAMBDA e : e[1] = r)
    IN  [i \in 1..Len(own) |-> own[i][2]]

HandledSeq(r) ==
    LET own == SelectSeq(handled, LAMBDA h : h.run = r)
    IN  [i \in 1..Len(own) |-> own[i].timestamp]

\* The worker handles the orders of a run in the order they were put on the
\* queue, each once it is taken, and what is not handled yet is the queue.
C21_ArrivalOrder ==
    /\ \A r \in 1..run :
          /\ Len(HandledSeq(r)) <= Len(EnqueuedSeq(r))
          /\ HandledSeq(r) = SubSeq(EnqueuedSeq(r), 1, Len(HandledSeq(r)))
    /\ running =>
          [i \in 1..Len(order_queue) |-> order_queue[i].signal_details.timestamp]
            = SubSeq(EnqueuedSeq(run), Len(HandledSeq(run)) + 1, Len(EnqueuedSeq(run)))

\* The decisions one read of the file puts on the queue arrive in the order
\* they have in the file.
C21_FileOrder ==
    LET new == SubSeq(enqueued', Len(enqueued) + 1, Len(enqueued'))
    IN  \A a, b \in 1..Len(new) :
          a < b => \E i, j \in 1..Len(signal_file) :
                      /\ i < j
                      /\ signal_file[i].timestamp = new[a][2]
                      /\ signal_file[j].timestamp = new[b][2]

\* C21: the worker is a single consumer: it handles the decisions one at a
\* time in the order they arrived on the queue, which for the decisions of
\* one read is their order in the signal file; gate, sizing, submission and
\* recording of one decision are one step of the worker, over before the
\* next decision is taken.
C21_SingleConsumer == [](C21_ArrivalOrder) /\ [][C21_FileOrder]_vars

\* Two decisions read together, both handled, the second after the first.
C21_Witness ==
    /\ run = 1
    /\ Len(HandledSeq(1)) = 2
    /\ HandledSeq(1)[1] # HandledSeq(1)[2]
    /\ \E n \in 1..(Len(enqueued) - 1) :
          /\ enqueued[n][2] = HandledSeq(1)[1]
          /\ enqueued[n + 1][2] = HandledSeq(1)[2]

\* A step in which a loop catches an error ends no loop.
C22_ErrorCaught ==
    errors' # errors =>
        /\ \A t \in ThreadNames : threads[t] # "exited" => threads'[t] # "exited"
        /\ analysis.pc # "exited" => analysis'.pc # "exited"

\* A loop ends only in a step that finds its stop flag set.
C22_EndsOnFlag ==
    /\ \A t \in ThreadNames :
          (threads[t] # "exited" /\ threads'[t] = "exited") => stop_event
    /\ (analysis.pc # "exited" /\ analysis'.pc = "exited") => analysis'.stop_event

\* C22: no error ends a worker loop: an exception raised while the order
\* worker, the signal poller, the position monitor or the analysis loop
\* handles an item is caught, the loop is back at the test of its stop flag
\* and ends only when the flag is set; the orders that wait on the queue
\* after an error are still handled unless the executor is stopped.
C22_LoopsSurvive ==
    /\ [][C22_ErrorCaught /\ C22_EndsOnFlag]_vars
    /\ [](Len(errors) > 0 /\ order_queue # << >>
            => <>(order_queue = << >> \/ stop_event))

\* The worker caught an error on one order and then submitted and recorded
\* the next one.
C22_Witness ==
    /\ \E i \in 1..Len(errors) :
          /\ errors[i].thread = "order"
          /\ Len(handled) > errors[i].at + 1
    /\ handled[Len(handled)].sent
    /\ last_order.recorded
    /\ ~stop_event

\* C23: once the stop flag is set every worker thread of the executor sees
\* it at the top of its next iteration and ends; the order worker's read of
\* the queue returns within a second when the queue is empty, so an empty
\* queue does not keep it from the test of the flag.
C23_WorkersTerminate == stop_event ~> NoThreadAlive

\* The executor was stopped with nothing on the queue and its three threads
\* have ended.
C23_Witness ==
    /\ stop_event
    /\ order_queue = << >>
    /\ \A t \in ThreadNames : threads[t] = "exited"
    /\ stopper = "done"

\* C24: shutdown aborts no submission in flight: the connections to the
\* database and to the terminal stay open while the worker handles an order
\* it has sent, and an order sent whose INSERT the database takes has its
\* row, also when stop() was called while the worker handled it.
C24_NoSubmissionAborted ==
    /\ in_flight # None => connections.db /\ connections.mt5
    /\ (Handled /\ last_order.sent /\ last_order.stored) => last_order.recorded

AnalysisTypes == {"basic", "wyckoff", "order_flow", "momentum"}

\* The validations of (asset, analysis_type) so far that found columns missing
FoundMissing(asset, analysis_type) ==
    SelectSeq(validations, LAMBDA v : /\ v.asset = asset
                                      /\ v.analysis_type = analysis_type
                                      /\ v.missing # << >>)

\* C25: for each (instrument, analysis kind) the issue record exists once a
\* validation of that key found required columns missing; its count is the
\* number of such validations so far, its first_detected and its list of
\* missing columns are those of the first of them; and a validation that
\* finds nothing missing leaves every issue record as it is.
C25_IssueBookkeeping ==
    /\ DOMAIN data_quality_issues \subseteq
          { IssueKey(asset, kind) : asset \in Assets, kind \in AnalysisTypes }
    /\ \A asset \in Assets, kind \in AnalysisTypes :
          LET found == FoundMissing(asset, kind)
              key   == IssueKey(asset, kind)
          IN  IF found = << >> THEN key \notin DOMAIN data_quality_issues
              ELSE /\ key \in DOMAIN data_quality_issues
                   /\ data_quality_issues[key].count = Len(found)
                   /\ data_quality_issues[key].first_detected = found[1].time
                   /\ data_quality_issues[key].missing_columns = found[1].missing
    /\ \A asset \in Assets, kind \in AnalysisTypes, table \in Tables :
          MissingColumns(table.columns, kind) = << >> =>
            ValidateDataColumns(data_quality_issues,
                                Some(table @@ [empty |-> FALSE, filled |-> {}]),
                                asset, kind, now).issues = data_quality_issues

\* A key counted twice whose second occurrence came later and with other
\* columns missing than the first.
C25_Witness ==
    \E asset \in Assets, kind \in AnalysisTypes :
      LET found == FoundMissing(asset, kind)
      IN  /\ Len(found) >= 2
          /\ found[Len(found)].time > found[1].time
          /\ found[Len(found)].missing # found[1].missing
          /\ data_quality_issues[IssueKey(asset, kind)].count = Len(found)

\* C26: on a frame that lacks any of the order-flow columns (or none)
\* analyze_order_flow returns a result, invalid or computed on the fallback
\* values, and raises nothing, also when a computation in it fails; after
\* its validation the momentum analysis and the decision are evaluated.
C26_OrderFlowNeverRaises ==
    /\ validations = << >> =>
        \A asset \in Assets, profile_name \in Profiles, table \in Tables,
          fault \in BOOLEAN :
          LET r == AnalyzeOrderFlowFrame(data_quality_issues,
                                         Some(table @@ [empty |-> FALSE, filled |-> {}]),
                                         asset, GetProfileConfig(profile_name),
                                         fault, now).result
          IN  /\ "raised" \notin DOMAIN r
              /\ r.valid \in BOOLEAN
              /\ fault => ~r.valid
    /\ (Len(validations) > 0 /\ validations[Len(validations)].analysis_type # "basic")
          => /\ validations[Len(validations)].analysis_type = "momentum"
             /\ eval.done
             /\ "raised" \notin DOMAIN eval.results.order_flow
             /\ eval.results.order_flow.valid \in BOOLEAN

\* A table without the three order-flow columns was analysed: the order-flow
\* result is valid, the momentum result too, and a decision was returned.
C26_Witness ==
    /\ Len(validations) >= 4
    /\ validations[Len(validations)].analysis_type = "momentum"
    /\ validations[Len(validations) - 1].analysis_type = "order_flow"
    /\ Len(validations[Len(validations) - 1].missing) = 3
    /\ eval.done
    /\ eval.results.order_flow.valid
    /\ eval.results.momentum.valid
    /\ eval.signal # None

\* C27: the observation store is append-only and its rows immutable: every
\* row the ingestion stored for an instrument is in the instrument's table
\* with the data it was stored with, whatever the ingestion did afterwards,
\* its start-up and restart included.
C27_RowsImmutable ==
    \A row \in ingested :
        /\ row.asset \in DOMAIN market_table
        /\ row.timestamp \in DOMAIN market_table[row.asset]
        /\ market_table[row.asset][row.timestamp] = row.data

\* The microsignals of the three analyses of the last evaluation
MicroSignals ==
    DictGet(eval.results.wyckoff, "signals", << >>)
      \o DictGet(eval.results.order_flow, "signals", << >>)
      \o DictGet(eval.results.momentum, "signals", << >>)

CountOf(type) == Cardinality({ i \in 1..Len(MicroSignals) : MicroSignals[i].type = type })

\* C28: the direction of a decision is that of the majority of all the
\* microsignals of the three analyses: Buy when the Buy microsignals are
\* strictly more than the Sell ones, Sell when they are fewer and Sell when
\* they are as many; with no microsignal at all there is no decision.
C28_MajorityDirection ==
    eval.done =>
      /\ MicroSignals = << >> => eval.signal = None
      /\ eval.signal # None =>
            eval.signal[1].type = IF CountOf("Compra") > CountOf("Venda")
                                  THEN "Compra" ELSE "Venda"

\* A decision returned on a tie: as many Buy as Sell microsignals, Sell.
C28_Witness ==
    /\ eval.done
    /\ eval.signal # None
    /\ CountOf("Compra") = CountOf("Venda")
    /\ CountOf("Compra") >= 1
    /\ eval.signal[1].type = "Venda"

\* C30: every decision returned has its stop and its target on the two
\* sides of the entry that its direction requires: stop < entry < target
\* for a Buy, target < entry < stop for a Sell, with levels from the
\* support and resistance of the Wyckoff analysis or from the percentage
\* band.
C30_LevelsOnTheirSides ==
    (eval.done /\ eval.signal # None) =>
      LET d == eval.signal[1]
      IN  IF d.type = "Compra"
          THEN d.stop_loss < d.entry_price /\ d.entry_price < d.take_profit
          ELSE d.take_profit < d.entry_price /\ d.entry_price < d.stop_loss

\* C29: an order sent for a decision that came through the signal file has
\* the side of the decision: a buy order for 'Compra', a sell order for
\* 'Venda'.
C29_SideIsDirection ==
    (Handled /\ last_order.sent) =>
      \A i \in 1..Len(signal_file) :
        signal_file[i].timestamp = last_order.timestamp =>
          last_order.type = IF signal_file[i].type = "Compra" THEN "BUY" ELSE "SELL"

(***************************************************************************)
(* Claims on the confidence and on the analysis modules                    *)
(***************************************************************************)
\* The microsignals of the evaluation that have the given type.
MajoritySignals(type) ==
    SelectSeq(DictGet(eval.results.wyckoff, "signals", << >>)
              \o DictGet(eval.results.order_flow, "signals", << >>)
              \o DictGet(eval.results.momentum, "signals", << >>),
              LAMBDA s : s.type = type)

\* The confidence of a module's result; a result without one counts 0.
ModuleConfidence(m) == DictGet(eval.results[m], "confidence", 0)

\* C31: the confidence of a decision is the larger of the mean confidence of
\* the microsignals in the decision's direction and the largest confidence of
\* the three module results.
C31_Confidence ==
    Emitted =>
      LET sigs == MajoritySignals(Decision.type)
          mean == SumSeq([i \in 1..Len(sigs) |-> DictGet(sigs[i], "confidence", 0)])
                    \div Len(sigs)
          top  == CHOOSE c \in { ModuleConfidence(m) : m \in Modules } :
                    \A m \in Modules : ModuleConfidence(m) <= c
      IN  Decision.confidence = Max(mean, top)

\* A decision whose confidence is that of a module other than the last one
\* read, the last one having a lower confidence above 0.
C31_Witness ==
    /\ Emitted
    /\ ModuleConfidence("momentum") > 0
    /\ ModuleConfidence("momentum") < Decision.confidence

\* The module called on its own has returned a valid result.
Called(module) ==
    module_call.done /\ module_call.module = module /\ module_call.result.valid

\* The microsignals of the result that have the given type and reason.
Microsignals(type, reason) ==
    SelectSeq(module_call.result.signals,
              LAMBDA s : s.type = type /\ s.reason = reason)

\* C32: with d_prev and d_cur the fast-minus-slow difference at the previous
\* and at the current point, the momentum analysis emits a golden-cross Buy
\* microsignal exactly when d_prev <= 0 and d_cur > 0, a death-cross Sell
\* microsignal exactly when d_prev > 0 and d_cur <= 0, and in both cases the
\* module confidence is between 0.6 and 0.85.
C32_CrossDetection ==
    Called("momentum") =>
      LET d_prev == module_call.f.prev_ma_diff
          d_cur  == module_call.f.last_ma_diff
          golden == Microsignals("Compra", "golden_cross") # << >>
          death  == Microsignals("Venda", "death_cross") # << >>
      IN  /\ golden <=> (d_prev <= 0 /\ d_cur > 0)
          /\ death <=> (d_prev > 0 /\ d_cur <= 0)
          /\ (golden \/ death) => /\ module_call.result.confidence >= 600
                                  /\ module_call.result.confidence <= 850

\* C33: on a frame of at least 10 points with a range that is not 0, the
\* phase analysis reports Accumulation, exactly one Buy microsignal and
\* confidence 0.7 when the position in the range is under 0.3 and the
\* accumulation tell count is over 5; Distribution, exactly one Sell
\* microsignal and confidence 0.7 when the position is over 0.7 and the
\* distribution tell count is over 5; otherwise no phase, no microsignal and
\* confidence 0.
C33_Phase ==
    (Called("wyckoff") /\ module_call.f.n >= 10
       /\ module_call.f.resistance # module_call.f.support) =>
      LET f     == module_call.f
          r     == module_call.result
          width == f.resistance - f.support
          \* position = (last - support) / width, in tenths of the width
          pos   == 10 * (f.ultimo - f.support)
      IN  IF pos < 3 * width /\ f.pdvu > 5
          THEN /\ r.phase = "Acumulacao"
               /\ Len(r.signals) = 1 /\ r.signals[1].type = "Compra"
               /\ r.confidence = 700
          ELSE IF pos > 7 * width /\ f.puvd > 5
          THEN /\ r.phase = "Distribuicao"
               /\ Len(r.signals) = 1 /\ r.signals[1].type = "Venda"
               /\ r.confidence = 700
          ELSE /\ r.phase = "None"
               /\ r.signals = << >>
               /\ r.confidence = 0

\* An accumulation on a frame whose last price is on the support.
C33_Witness ==
    /\ Called("wyckoff")
    /\ module_call.f.n >= 10
    /\ module_call.f.ultimo = module_call.f.support
    /\ module_call.result.phase = "Acumulacao"

EvalKey == SignalKey(eval.asset, eval.profile)

\* The decision s is one for the pair k generated at the time t.
DecisionFor(s, k, t) ==
    /\ SignalKey(s.asset, s.strategy_profile) = k
    /\ s.timestamp = t

\* C35: the ledger entry of a pair is stamped only when a decision for that
\* pair is handed to the signal channel: every step that sets the entry of a
\* pair to a time t appends a decision of that pair generated at t to the
\* signal file, also when the hand-off is disabled or the write fails.
C35_StampedOnlyWhenHandedOver ==
    [][\A k \in DOMAIN last_signal_time' :
         (k \notin DOMAIN last_signal_time \/ last_signal_time'[k] # last_signal_time[k])
           => /\ file_mtime' # file_mtime
              /\ signal_file' # << >>
              /\ DecisionFor(signal_file'[Len(signal_file')], k, last_signal_time'[k])]_vars

\* C36: an evaluation that emits no decision leaves the whole ledger as it
\* was, and one that emits a decision changes the entry of its pair only.
C36_LedgerFrame ==
    [][/\ eval'.signal = None => last_signal_time' = last_signal_time
       /\ eval'.signal # None =>
            /\ DOMAIN last_signal_time' =
                 DOMAIN last_signal_time \cup {SignalKey(eval'.asset, eval'.profile)}
            /\ \A k \in DOMAIN last_signal_time :
                 k # SignalKey(eval'.asset, eval'.profile)
                   => last_signal_time'[k] = last_signal_time[k]]_vars

\* A decision emitted for one pair while the ledger holds the entry of the
\* other pair, stamped at an earlier time.
C36_Witness ==
    /\ eval.signal # None
    /\ eval.signal[1].timestamp = now
    /\ \E k \in DOMAIN last_signal_time : k # EvalKey /\ last_signal_time[k] < now

\* The times at which a chart of the pair k was saved
ChartTimes(k) == { c[2] : c \in { d \in charts : d[1] = k } }

\* No chart of the pair k was saved before, or chart_interval has passed
\* since the last one.
PeriodicChartDue(k) == \A t \in ChartTimes(k) : now - t >= ChartInterval

\* C37: an evaluation that emits no decision saves a chart of its pair when
\* none was saved before or chart_interval has passed since the last one;
\* and two charts of a pair are less than chart_interval apart only when a
\* decision was generated with the later one.
C37_PeriodicChart ==
    [][/\ (now' = now /\ eval'.signal = None
             /\ PeriodicChartDue(SignalKey(eval'.asset, eval'.profile)))
          => <<SignalKey(eval'.asset, eval'.profile), now>> \in charts'
       /\ \A c \in charts', d \in charts' :
            (c[1] = d[1] /\ c[2] < d[2] /\ d[2] - c[2] < ChartInterval)
              => /\ d[1] \in DOMAIN emitted'
                 /\ \E j \in 1..Len(emitted'[d[1]]) : emitted'[d[1]][j] = d[2]]_vars

(***************************************************************************)
(* Claims on the end of the session, the daily statistics and the reader    *)
(***************************************************************************)
\* C38: once the time of day has reached the monitor's force-close threshold
\* (the end of the session minus the buffer), the order worker opens no new
\* position for the rest of the day: no step taken at such a time adds a
\* position to the terminal, so none follows a forced close.
C38_NoOpenAfterForceClose ==
    [][InClosingWindow(ExecutorConfig.trading, now)
         => mt5'.positions \subseteq mt5.positions]_vars

\* The row the statistics table holds for the date of the in-memory
\* statistics equals them.
RowIsStats(table, stats) ==
    stats.date \in DOMAIN table /\ table[stats.date] = stats

\* C39 as stated: after every update_daily_stats call the in-memory
\* statistics have trades = wins + losses and pnl = the sum of the profits
\* recorded for their date, and the row persisted for that date equals them.
C39_StatsAsClaimed ==
    [][stats_calls'.n # stats_calls.n =>
         /\ daily_stats'.trades = daily_stats'.wins + daily_stats'.losses
         /\ daily_stats'.pnl = stats_calls'.recorded[daily_stats'.date]
         /\ RowIsStats(stats_table', daily_stats')]_vars

\* C39, amended: after every update_daily_stats call trades = wins + losses;
\* pnl is the sum of the profits recorded for the date as long as the
\* database took every load and save of that date; and the row persisted
\* for the date equals the in-memory statistics when the database took the
\* save of the call.
C39_DailyStats ==
    [][stats_calls'.n # stats_calls.n =>
         /\ daily_stats'.trades = daily_stats'.wins + daily_stats'.losses
         /\ daily_stats'.date \notin stats_calls'.faults
               => daily_stats'.pnl = stats_calls'.recorded[daily_stats'.date]
         /\ stats_calls'.stored => RowIsStats(stats_table', daily_stats')]_vars

\* Three calls on one date, a win among losses, after a restart that loaded
\* the row of the date: the row holds the three trades.
C39_Witness ==
    /\ stats_calls.n = 3
    /\ stats_calls.stored
    /\ stats_calls.faults = {}
    /\ run = 2
    /\ daily_stats.trades = 3
    /\ daily_stats.wins = 1
    /\ daily_stats.pnl = stats_calls.recorded[daily_stats.date]
    /\ RowIsStats(stats_table, daily_stats)

\* The configured cells
CellNames == { RtdCells[i] : i \in 1..Len(RtdCells) }

\* C40: a read_rtd_data call returns (None, None) exactly when every
\* configured cell failed in that call, whatever the error history of the
\* cells.
C40_NoneIffAllFailed ==
    rtd_call.n > 0 =>
      (rtd_call.data = None
         <=> (rtd_call.read = CellNames /\ CellNames \subseteq rtd_call.failed))

=============================================================================
